---- MODULE Spec2Model ----
(***************************************************************************)
(* A model of the key-value server: the RESP codec (data_types.rs), the    *)
(* command pipeline (commands.rs), the store (store.rs) and the accept     *)
(* loop with its per-connection tasks (server.rs).                         *)
(*                                                                         *)
(* Text is modelled as a sequence of one-character strings, so that the    *)
(* codec works on the bytes that travel on the socket.                     *)
(***************************************************************************)
EXTENDS Integers, Sequences, FiniteSets, TLC

(***************************************************************************)
(* Text helpers                                                            *)
(***************************************************************************)
CR == "\r"
LF == "\n"
CRLF == <<CR, LF>>

Digits == <<"0", "1", "2", "3", "4", "5", "6", "7", "8", "9">>
LowerLetters == <<"a", "b", "c", "d", "e", "f", "g", "h", "i", "j", "k", "l", "m",
                  "n", "o", "p", "q", "r", "s", "t", "u", "v", "w", "x", "y", "z">>
UpperLetters == <<"A", "B", "C", "D", "E", "F", "G", "H", "I", "J", "K", "L", "M",
                  "N", "O", "P", "Q", "R", "S", "T", "U", "V", "W", "X", "Y", "Z">>

IsDigit(ch) == \E i \in 1..10 : Digits[i] = ch
DigitValue(ch) == (CHOOSE i \in 1..10 : Digits[i] = ch) - 1

\* char::to_uppercase on the ASCII range
UpperChar(ch) ==
    IF \E i \in 1..26 : LowerLetters[i] = ch
    THEN UpperLetters[CHOOSE i \in 1..26 : LowerLetters[i] = ch]
    ELSE ch

\* str::to_uppercase
to_uppercase(s) == [i \in 1..Len(s) |-> UpperChar(s[i])]

\* str::starts_with
starts_with(s, p) == Len(s) >= Len(p) /\ SubSeq(s, 1, Len(p)) = p

\* the text after a one-character prefix (str::strip_prefix on a line known to start with it)
strip_prefix(s) == SubSeq(s, 2, Len(s))

RECURSIVE to_string(_)
\* the decimal text of a natural number (Display for usize)
to_string(n) ==
    IF n < 10 THEN <<Digits[n + 1]>>
    ELSE to_string(n \div 10) \o <<Digits[(n % 10) + 1]>>

RECURSIVE DigitsValue(_)
DigitsValue(s) ==
    IF s = <<>> THEN 0
    ELSE DigitsValue(SubSeq(s, 1, Len(s) - 1)) * 10 + DigitValue(s[Len(s)])

AllDigits(s) == s # <<>> /\ \A i \in 1..Len(s) : IsDigit(s[i])

\* str::parse::<usize>: an optional '+' and at least one digit
parse_usize(s) ==
    LET body == IF s # <<>> /\ s[1] = "+" THEN Tail(s) ELSE s
    IN  IF AllDigits(body) THEN [ok |-> TRUE, v |-> DigitsValue(body)]
        ELSE [ok |-> FALSE]

\* str::parse::<i64>: an optional sign and at least one digit
parse_i64(s) ==
    LET signed == s # <<>> /\ s[1] \in {"+", "-"}
        body == IF signed THEN Tail(s) ELSE s
    IN  IF AllDigits(body)
        THEN [ok |-> TRUE,
              v |-> IF signed /\ s[1] = "-" THEN 0 - DigitsValue(body)
                    ELSE DigitsValue(body)]
        ELSE [ok |-> FALSE]

RECURSIVE SplitInclusive(_)
\* str::split_inclusive('\n'): pieces that end with the line feed, the last
\* piece being what is left when it is not empty
SplitInclusive(s) ==
    IF s = <<>> THEN <<>>
    ELSE LET n == IF \E i \in 1..Len(s) : s[i] = LF
                  THEN CHOOSE i \in 1..Len(s) : s[i] = LF /\ \A j \in 1..(i - 1) : s[j] # LF
                  ELSE Len(s)
         IN  <<SubSeq(s, 1, n)>> \o SplitInclusive(SubSeq(s, n + 1, Len(s)))

\* one item of str::lines: the trailing "\n" and a "\r" right before it are removed
StripLineEnding(piece) ==
    IF piece # <<>> /\ piece[Len(piece)] = LF
    THEN LET l == SubSeq(piece, 1, Len(piece) - 1)
         IN  IF l # <<>> /\ l[Len(l)] = CR THEN SubSeq(l, 1, Len(l) - 1) ELSE l
    ELSE piece

\* str::lines
lines(s) ==
    LET pieces == SplitInclusive(s)
    IN  [i \in 1..Len(pieces) |-> StripLineEnding(pieces[i])]

(***************************************************************************)
(* RespDataType, RespEncoder, RespDecoder                                  *)
(***************************************************************************)
SimpleString(s) == [t |-> "SimpleString", s |-> s]
BulkString(s) == [t |-> "BulkString", s |-> s]
Array(a) == [t |-> "Array", a |-> a]
NullBulkString == [t |-> "NullBulkString"]

\* the bytes of the null bulk string
NullBulkStringBytes == <<"$", "-", "1", CR, LF>>

RECURSIVE RespEncoder_encode(_)
RECURSIVE EncodeAll(_)
\* the loop of the Array arm: the encodings of the elements, concatenated
EncodeAll(a) ==
    IF a = <<>> THEN <<>>
    ELSE RespEncoder_encode(Head(a)) \o EncodeAll(Tail(a))

RespEncoder_encode(f) ==
    CASE f.t = "SimpleString" -> <<"+">> \o f.s \o CRLF
      [] f.t = "BulkString" -> <<"$">> \o to_string(Len(f.s)) \o CRLF \o f.s \o CRLF
      [] f.t = "Array" -> <<"*">> \o to_string(Len(f.a)) \o CRLF \o EncodeAll(f.a)
      [] f.t = "NullBulkString" -> NullBulkStringBytes

DecodeErr == [ok |-> FALSE]

RECURSIVE RespDecoder_decode(_)
RECURSIVE DecodeElements(_, _, _)
\* the loop of the Array arm: size elements decoded one after the other, the
\* first error returned
DecodeElements(ls, size, values) ==
    IF size = 0 THEN [ok |-> TRUE, v |-> Array(values), rest |-> ls]
    ELSE LET r == RespDecoder_decode(ls)
         IN  IF r.ok THEN DecodeElements(r.rest, size - 1, Append(values, r.v))
             ELSE DecodeErr

\* decode one value from the iterator of lines; rest is the iterator afterwards
RespDecoder_decode(ls) ==
    IF ls = <<>> THEN DecodeErr
    ELSE LET line == Head(ls)
             rest == Tail(ls)
         IN  IF starts_with(line, <<"*">>)
             THEN LET p == parse_usize(strip_prefix(line))
                      size == IF p.ok THEN p.v ELSE 0
                  IN  DecodeElements(rest, size, <<>>)
             ELSE IF starts_with(line, <<"$">>)
             THEN IF rest = <<>>
                  THEN [ok |-> TRUE, v |-> BulkString(<<>>), rest |-> <<>>]
                  ELSE [ok |-> TRUE, v |-> BulkString(Head(rest)), rest |-> Tail(rest)]
             ELSE IF starts_with(line, <<"+">>)
             THEN [ok |-> TRUE, v |-> SimpleString(strip_prefix(line)), rest |-> rest]
             ELSE DecodeErr

(***************************************************************************)
(* Literals                                                                *)
(***************************************************************************)
T_PING == <<"P", "I", "N", "G">>
T_PONG == <<"P", "O", "N", "G">>
T_ECHO == <<"E", "C", "H", "O">>
T_SET == <<"S", "E", "T">>
T_GET == <<"G", "E", "T">>
T_CONFIG == <<"C", "O", "N", "F", "I", "G">>
T_CONFIG_GET == T_CONFIG \o <<" ">> \o T_GET
T_KEYS == <<"K", "E", "Y", "S">>
T_INFO == <<"I", "N", "F", "O">>
T_PX == <<"P", "X">>
T_OK == <<"O", "K">>
T_STAR == <<"*">>
T_dir == <<"d", "i", "r">>
T_dbfilename == <<"d", "b", "f", "i", "l", "e", "n", "a", "m", "e">>
T_replication == <<"r", "e", "p", "l", "i", "c", "a", "t", "i", "o", "n">>

None == <<>>
Some(x) == <<x>>

(***************************************************************************)
(* Store, StoreValue, StoreValueBuilder (store.rs)                         *)
(***************************************************************************)
StoreValue(value, exp) == [value |-> value, exp |-> exp]

StoreValueBuilder_new == [value |-> None, exp |-> None]
StoreValueBuilder_with_exp(b, exp) == [b EXCEPT !.exp = Some(exp)]
\* the value is not kept
StoreValueBuilder_with_value_lost(b, value) == b
StoreValueBuilder_with_value(b, value) == [b EXCEPT !.value = Some(value)]
\* build unwraps the value: it panics when no value was given
StoreValueBuilder_build_panics(b) == b.value = None
StoreValueBuilder_build(b) == StoreValue(b.value[1], b.exp)

\* an insertion that keeps the expiration of the entry it replaces when the new
\* entry has none
Store_set_merge(data, key, value) ==
    [k \in (DOMAIN data) \cup {key} |->
        IF k # key THEN data[k]
        ELSE IF k \in DOMAIN data /\ value.exp = None
             THEN [value EXCEPT !.exp = data[k].exp]
             ELSE value]

\* an insertion that keeps the entry of a key already in the map
Store_set_keep(data, key, value) ==
    [k \in (DOMAIN data) \cup {key} |-> IF k \in DOMAIN data THEN data[k] ELSE value]

\* HashMap::insert: the entry of key is replaced as a whole
Store_set(data, key, value) ==
    [k \in (DOMAIN data) \cup {key} |-> IF k = key THEN value ELSE data[k]]

Store_get(data, key) == IF key \in DOMAIN data THEN Some(data[key]) ELSE None

\* the keys in the iteration order of the map, which is not specified: every
\* order of the key set is a possible result
Store_get_all_keys(data) ==
    {ks \in [1..Cardinality(DOMAIN data) -> DOMAIN data] :
        \A i, j \in DOMAIN ks : i # j => ks[i] # ks[j]}

EmptyStore == [k \in {} |-> None]

(***************************************************************************)
(* Commands (commands.rs)                                                  *)
(***************************************************************************)
Err(e) == [kind |-> "err", err |-> e]
Reply(buf) == [kind |-> "reply", buf |-> buf]
Unimplemented == [kind |-> "panic", err |-> "unimplemented"]

\* CommandWriter::from_resp_data_type: the BulkString elements of an Array
from_resp_data_type(value) ==
    IF value.t = "Array"
    THEN [ok |-> TRUE,
          args |-> LET idx == {i \in 1..Len(value.a) : value.a[i].t = "BulkString"}
                       RECURSIVE Collect(_)
                       Collect(i) ==
                           IF i > Len(value.a) THEN <<>>
                           ELSE (IF i \in idx THEN <<value.a[i].s>> ELSE <<>>)
                                \o Collect(i + 1)
                   IN  Collect(1)]
    ELSE [ok |-> FALSE, err |-> "InvalidCommand"]

\* the name of a command without arguments is the empty text
get_command_name_blank(args) ==
    CASE Len(args) = 0 -> Some(<<>>)
      [] Len(args) = 1 -> Some(args[1])
      [] OTHER -> Some(args[1] \o <<" ">> \o args[2])

\* CommandWriter::get_command_name
get_command_name(args) ==
    CASE Len(args) = 0 -> None
      [] Len(args) = 1 -> Some(args[1])
      [] OTHER -> Some(args[1] \o <<" ">> \o args[2])

PingCommand_generate_reply == Reply(RespEncoder_encode(SimpleString(T_PONG)))

EchoCommand_generate_reply(args) ==
    IF Len(args) < 2 THEN Err("InvalidFormat")
    ELSE Reply(RespEncoder_encode(BulkString(args[2])))

RECURSIVE ParseChunks(_, _, _)
\* the loop of SetCommandOptionParser::parse over args.chunks(2)
ParseChunks(args, clock, options) ==
    IF args = <<>> THEN [ok |-> TRUE, options |-> options]
    ELSE LET option_name == args[1]
         IN  IF to_uppercase(option_name) = T_PX
             THEN IF Len(args) < 2 THEN [ok |-> FALSE, err |-> "InvalidCommandOptionValue"]
                  ELSE LET option_value == parse_i64(args[2])
                       IN  IF ~option_value.ok
                           THEN [ok |-> FALSE, err |-> "InvalidCommandOptionValue"]
                           ELSE ParseChunks(SubSeq(args, 3, Len(args)), clock,
                                            Append(options, clock + option_value.v))
             ELSE [ok |-> FALSE, err |-> "InvalidCommandOptionName"]

\* the value of PX taken as seconds
SetCommandOptionParser_parse_secs(args, clock) ==
    LET r == ParseChunks(args, clock, <<>>)
    IN  IF r.ok
        THEN [ok |-> TRUE,
              options |-> [i \in 1..Len(r.options) |-> clock + (r.options[i] - clock) * 1000]]
        ELSE r

\* the options are the expirations of the PX pairs, in order
SetCommandOptionParser_parse(args, clock) == ParseChunks(args, clock, <<>>)

\* the expiration of the builder is the one of the first PX
ApplyOptions_first(b, options) ==
    IF options = <<>> THEN b ELSE StoreValueBuilder_with_exp(b, Head(options))

RECURSIVE ApplyOptions(_, _)
\* the loop over the parsed options: each PX sets the expiration of the builder
ApplyOptions(b, options) ==
    IF options = <<>> THEN b
    ELSE ApplyOptions(StoreValueBuilder_with_exp(b, Head(options)), Tail(options))

\* the error of the option parser is dropped and the value is stored without options
SetCommand_prepare_lenient(args, clock) ==
    IF Len(args) < 3 THEN Err("InvalidFormat")
    ELSE LET options == SetCommandOptionParser_parse(SubSeq(args, 4, Len(args)), clock)
             b == StoreValueBuilder_with_value(StoreValueBuilder_new, args[3])
         IN  [kind |-> "lock", op |-> "SET", key |-> args[2],
              builder |-> IF options.ok THEN ApplyOptions(b, options.options) ELSE b]

\* SetCommand::generate_reply up to the call of lock: the error it returns, or
\* the key and the builder it takes to the lock
SetCommand_prepare(args, clock) ==
    IF Len(args) < 2 THEN Err("InvalidFormat")
    ELSE IF Len(args) < 3 THEN Err("InvalidFormat")
    ELSE LET key == args[2]
             value == args[3]
             b == StoreValueBuilder_with_value(StoreValueBuilder_new, value)
             options == SetCommandOptionParser_parse(SubSeq(args, 4, Len(args)), clock)
         IN  IF ~options.ok THEN Err(options.err)
             ELSE [kind |-> "lock", op |-> "SET", key |-> key,
                   builder |-> ApplyOptions(b, options.options)]

\* GetCommand::generate_reply up to the call of lock
GetCommand_prepare(args) ==
    IF Len(args) < 2 THEN Err("InvalidFormat")
    ELSE [kind |-> "lock", op |-> "GET", key |-> args[2]]

\* GetCommand::generate_reply once the lock is held
GetCommand_reply(data, key, clock) ==
    LET found == Store_get(data, key)
    IN  IF found = None THEN RespEncoder_encode(NullBulkString)
        ELSE LET store_value == found[1]
             IN  IF store_value.exp # None
                 THEN IF store_value.exp[1] < clock
                      THEN RespEncoder_encode(NullBulkString)
                      ELSE RespEncoder_encode(BulkString(store_value.value))
                 ELSE RespEncoder_encode(BulkString(store_value.value))

\* KeysCommand::generate_reply up to the call of lock
KeysCommand_prepare(args) ==
    IF Len(args) < 2 THEN Err("InvalidFormat")
    ELSE IF args[2] = T_STAR THEN [kind |-> "lock", op |-> "KEYS"]
    ELSE Unimplemented

\* KeysCommand::generate_reply once the lock is held, for one order of the keys
KeysCommand_reply(keys) ==
    RespEncoder_encode(Array([i \in 1..Len(keys) |-> BulkString(keys[i])]))

\* the configuration key is matched without regard to its case
ConfigGetCommand_generate_reply_folded(args, server_config) ==
    IF Len(args) < 3 THEN Err("InvalidFormat")
    ELSE LET config_key == args[3]
             config_value == CASE to_uppercase(config_key) = to_uppercase(T_dir) ->
                                    server_config.dir
                               [] to_uppercase(config_key) = to_uppercase(T_dbfilename) ->
                                    server_config.dbfilename
                               [] OTHER -> None
         IN  IF config_value # None
             THEN Reply(RespEncoder_encode(Array(<<BulkString(config_key),
                                                   BulkString(config_value[1])>>)))
             ELSE Reply(RespEncoder_encode(NullBulkString))

\* ConfigGetCommand::generate_reply
ConfigGetCommand_generate_reply(args, server_config) ==
    IF Len(args) < 3 THEN Err("InvalidFormat")
    ELSE LET config_key == args[3]
             config_value == CASE config_key = T_dir -> server_config.dir
                               [] config_key = T_dbfilename -> server_config.dbfilename
                               [] OTHER -> None
         IN  IF config_value # None
             THEN Reply(RespEncoder_encode(Array(<<BulkString(config_key),
                                                   BulkString(config_value[1])>>)))
             ELSE Reply(RespEncoder_encode(NullBulkString))

\* Display for ServerInfoFormatter
ServerInfoFormatter_fmt(info) ==
    <<"r", "o", "l", "e", ":">> \o info.role \o <<LF>>
    \o <<"m", "a", "s", "t", "e", "r", "_", "r", "e", "p", "l", "i", "d", ":">>
    \o info.id \o <<LF>>
    \o <<"m", "a", "s", "t", "e", "r", "_", "r", "e", "p", "l", "_",
         "o", "f", "f", "s", "e", "t", ":">> \o to_string(info.offset) \o <<LF>>

InfoCommand_generate_reply(args, info) ==
    IF Len(args) < 2 THEN Err("InvalidFormat")
    ELSE IF args[2] # T_replication THEN Err("InvalidInfoArg")
    ELSE Reply(RespEncoder_encode(BulkString(ServerInfoFormatter_fmt(info))))

\* the command is selected by the first word of the name, which must be the
\* whole name of a command
CommandWriter_write_exact(args, clock, server_config, server_info) ==
    LET command_name == get_command_name(args)
    IN  IF command_name = None THEN Err("EmptyCommand")
        ELSE LET name == to_uppercase(args[1])
                 pair == to_uppercase(command_name[1])
             IN  CASE name = T_PING -> PingCommand_generate_reply
                   [] name = T_ECHO -> EchoCommand_generate_reply(args)
                   [] name = T_SET -> SetCommand_prepare(args, clock)
                   [] name = T_GET -> GetCommand_prepare(args)
                   [] pair = T_CONFIG_GET ->
                        ConfigGetCommand_generate_reply(args, server_config)
                   [] name = T_KEYS -> KeysCommand_prepare(args)
                   [] name = T_INFO -> InfoCommand_generate_reply(args, server_info)
                   [] OTHER -> Err("InvalidCommand")

\* CommandWriter::write up to the store lock or the reply of the command
CommandWriter_write(args, clock, server_config, server_info) ==
    LET command_name == get_command_name(args)
    IN  IF command_name = None THEN Err("EmptyCommand")
        ELSE LET name == to_uppercase(command_name[1])
             IN  CASE starts_with(name, T_PING) -> PingCommand_generate_reply
                   [] starts_with(name, T_ECHO) -> EchoCommand_generate_reply(args)
                   [] starts_with(name, T_SET) -> SetCommand_prepare(args, clock)
                   [] starts_with(name, T_GET) -> GetCommand_prepare(args)
                   [] starts_with(name, T_CONFIG_GET) ->
                        ConfigGetCommand_generate_reply(args, server_config)
                   [] starts_with(name, T_KEYS) -> KeysCommand_prepare(args)
                   [] starts_with(name, T_INFO) -> InfoCommand_generate_reply(args, server_info)
                   [] OTHER -> Err("InvalidCommand")

\* one turn of the connection loop from the message read to the command's
\* reply, error, panic or lock request; args are the arguments of the writer
HandleMessage(message, clock, server_config, server_info) ==
    LET decoded == RespDecoder_decode(lines(message))
    IN  IF ~decoded.ok THEN [out |-> Err("InvalidRespDataType"), args |-> <<>>]
        ELSE LET writer == from_resp_data_type(decoded.v)
             IN  IF ~writer.ok THEN [out |-> Err(writer.err), args |-> <<>>]
                 ELSE [out |-> CommandWriter_write(writer.args, clock, server_config,
                                                   server_info),
                       args |-> writer.args]

(***************************************************************************)
(* The snapshot decoder (rdb/decoder.rs). A byte is a number in 0..255     *)
(***************************************************************************)
TagMetadata == 250
TagSizes == 251
TagExpireMillis == 252
TagExpireSeconds == 253
TagDatabase == 254
TagEndOfFile == 255
EncInt8 == 192
EncInt16 == 193
EncInt32 == 194
EncLzf == 195

\* the character of an ASCII byte: digits, letters, '-' and '.'; the other
\* bytes are outside the texts of the snapshots explored
Chr(b) ==
    CASE b >= 48 /\ b <= 57 -> Digits[b - 47]
      [] b >= 65 /\ b <= 90 -> UpperLetters[b - 64]
      [] b >= 97 /\ b <= 122 -> LowerLetters[b - 96]
      [] b = 45 -> "-"
      [] b = 46 -> "."
      [] OTHER -> "?"

\* String::from_utf8 on ASCII bytes; a byte above 127 is where the texts
\* explored are not valid UTF-8
from_utf8(buf) ==
    IF \A i \in 1..Len(buf) : buf[i] < 128
    THEN [ok |-> TRUE, v |-> [i \in 1..Len(buf) |-> Chr(buf[i])]]
    ELSE [ok |-> FALSE]

RECURSIVE from_le_bytes(_)
\* u16, u32, u64::from_le_bytes
from_le_bytes(buf) ==
    IF buf = <<>> THEN 0 ELSE Head(buf) + 256 * from_le_bytes(Tail(buf))

\* the bytes of a big-endian number read with the least significant byte first
from_be_bytes_swapped(buf) == from_le_bytes(buf)

RECURSIVE from_be_bytes(_)
\* u16, u32::from_be_bytes
from_be_bytes(buf) ==
    IF buf = <<>> THEN 0
    ELSE from_be_bytes(SubSeq(buf, 1, Len(buf) - 1)) * 256 + buf[Len(buf)]

\* the outcomes of the decoder, each with the reader as the call leaves it
RdbOk(v, rd) == [kind |-> "ok", v |-> v, rd |-> rd]
RdbErr(e, rd) == [kind |-> "err", err |-> e, rd |-> rd]
RdbPanic(e, rd) == [kind |-> "panic", err |-> e, rd |-> rd]

\* RdbFileReader::new: the bytes of the file not read yet, and the buffer. The
\* log is the history of the calls made on the reader: for each call its name,
\* the buffer and the number of file bytes left when it is made, and the bytes
\* it returns (for write_byte_to_buf, the byte it is given)
RdbFileReader_new(file) == [file |-> file, buffer |-> <<>>, log |-> <<>>]

Logged(rd, op, got) ==
    Append(rd.log, [op |-> op, buffer |-> rd.buffer, left |-> Len(rd.file), got |-> got])

\* the room read_buf finds in buf after the buffer of b bytes was put into a
\* BytesMut of capacity n - b: what is left of the capacity, and the room
\* BytesMut reserves (64 bytes) when none is left
SpareCapacity(n, b) ==
    LET cap == n - b
        grown == IF cap >= b THEN cap
                 ELSE IF 2 * cap >= b /\ 2 * cap >= 8 THEN 2 * cap
                 ELSE IF b >= 8 THEN b ELSE 8
    IN  IF grown > b THEN grown - b ELSE IF b >= 64 THEN b ELSE 64

\* RdbFileReader::read_exact: the buffer followed by the bytes one read_buf
\* call gets from the file, which are as many as fit and as the file has left;
\* the subtraction overflows when the buffer holds more than number_of_bytes
RdbFileReader_read_exact(rd, number_of_bytes) ==
    IF number_of_bytes < Len(rd.buffer)
    THEN RdbPanic("overflow", [rd EXCEPT !.log = Logged(rd, "read_exact", <<>>)])
    ELSE LET spare == SpareCapacity(number_of_bytes, Len(rd.buffer))
             got == IF spare < Len(rd.file) THEN spare ELSE Len(rd.file)
         IN  RdbOk(rd.buffer \o SubSeq(rd.file, 1, got),
                   [file |-> SubSeq(rd.file, got + 1, Len(rd.file)), buffer |-> <<>>,
                    log |-> Logged(rd, "read_exact", rd.buffer \o SubSeq(rd.file, 1, got))])

\* a read_u8 that leaves the byte it returns in the buffer
RdbFileReader_read_u8_keep(rd) ==
    IF rd.buffer = <<>>
    THEN IF rd.file = <<>>
         THEN RdbErr("ReadFile", [rd EXCEPT !.log = Logged(rd, "read_u8", <<>>)])
         ELSE RdbOk(Head(rd.file),
                    [rd EXCEPT !.file = Tail(@),
                               !.log = Logged(rd, "read_u8", <<Head(rd.file)>>)])
    ELSE RdbOk(rd.buffer[Len(rd.buffer)],
               [rd EXCEPT !.log = Logged(rd, "read_u8", <<rd.buffer[Len(rd.buffer)]>>)])

\* RdbFileReader::read_u8: the last byte of the buffer when it holds one, else
\* the next byte of the file; the end of the file is a read error
RdbFileReader_read_u8(rd) ==
    IF rd.buffer = <<>>
    THEN IF rd.file = <<>>
         THEN RdbErr("ReadFile", [rd EXCEPT !.log = Logged(rd, "read_u8", <<>>)])
         ELSE RdbOk(Head(rd.file),
                    [rd EXCEPT !.file = Tail(@),
                               !.log = Logged(rd, "read_u8", <<Head(rd.file)>>)])
    ELSE RdbOk(rd.buffer[Len(rd.buffer)],
               [rd EXCEPT !.buffer = <<>>,
                          !.log = Logged(rd, "read_u8", <<rd.buffer[Len(rd.buffer)]>>)])

RdbFileReader_write_byte_to_buf(rd, byte) ==
    [rd EXCEPT !.buffer = Append(@, byte),
               !.log = Logged(rd, "write_byte_to_buf", <<byte>>)]

RdbSection_from_byte(byte) ==
    CASE byte = TagMetadata -> Some("METADATA")
      [] byte = TagDatabase -> Some("DATABASE")
      [] byte = TagEndOfFile -> Some("END_OF_FILE")
      [] OTHER -> None

RdbValueType_from_byte(byte) == IF byte = 0 THEN Some("StringEncoding") ELSE None

Length(n) == [k |-> "Length", n |-> n]
StringType(byte) == [k |-> "StringType", byte |-> byte]

\* the ? of the decoder: an error (or a panic) of r is the result, else the
\* rest goes on with r
Try(r, F(_)) == IF r.kind # "ok" THEN r ELSE F(r)

SizeDecoder_decode(rd) ==
    Try(RdbFileReader_read_u8(rd), LAMBDA r :
        CASE r.v \div 64 = 0 -> RdbOk(Length(r.v), r.rd)
          [] r.v \div 64 = 1 ->
               Try(RdbFileReader_read_u8(r.rd), LAMBDA n :
                   RdbOk(Length(from_be_bytes(<<r.v % 64, n.v>>)), n.rd))
          [] r.v \div 64 = 2 ->
               Try(RdbFileReader_read_exact(r.rd, 4), LAMBDA b :
                   IF Len(b.v) # 4 THEN RdbErr("InvalidArrayConversion", b.rd)
                   ELSE RdbOk(Length(from_be_bytes(b.v)), b.rd))
          [] OTHER -> RdbOk(StringType(r.v), r.rd))

StringDecoder_decode(rd) ==
    Try(SizeDecoder_decode(rd), LAMBDA size :
        IF size.v.k = "Length"
        THEN Try(RdbFileReader_read_exact(size.rd, size.v.n), LAMBDA buf :
                 IF ~from_utf8(buf.v).ok THEN RdbErr("InvalidStringConversion", buf.rd)
                 ELSE RdbOk(from_utf8(buf.v).v, buf.rd))
        ELSE CASE size.v.byte = EncInt8 ->
                    Try(RdbFileReader_read_u8(size.rd), LAMBDA b :
                        RdbOk(to_string(b.v), b.rd))
               [] size.v.byte = EncInt16 ->
                    Try(RdbFileReader_read_exact(size.rd, 2), LAMBDA buf :
                        IF Len(buf.v) < 2 THEN RdbPanic("index", buf.rd)
                        ELSE RdbOk(to_string(from_le_bytes(SubSeq(buf.v, 1, 2))), buf.rd))
               [] size.v.byte = EncInt32 ->
                    Try(RdbFileReader_read_exact(size.rd, 4), LAMBDA buf :
                        IF Len(buf.v) # 4 THEN RdbErr("InvalidArrayConversion", buf.rd)
                        ELSE RdbOk(to_string(from_le_bytes(buf.v)), buf.rd))
               [] size.v.byte = EncLzf -> RdbPanic("todo", size.rd)
               [] OTHER -> RdbErr("InvalidString", size.rd))

decode_expire_timestamp_in_seconds(rd) ==
    Try(RdbFileReader_read_exact(rd, 4), LAMBDA buf :
        IF Len(buf.v) # 4 THEN RdbErr("InvalidArrayConversion", buf.rd)
        ELSE RdbOk(from_le_bytes(buf.v), buf.rd))

decode_expire_timestamp_in_miliseconds(rd) ==
    Try(RdbFileReader_read_exact(rd, 8), LAMBDA buf :
        IF Len(buf.v) # 8 THEN RdbErr("InvalidArrayConversion", buf.rd)
        ELSE RdbOk(from_le_bytes(buf.v), buf.rd))

\* i32::MAX
I32Max == 2147483647

\* the key, and the value when the value type is the string encoding
decode_db_key_value_pairs(rd) ==
    Try(RdbFileReader_read_u8(rd), LAMBDA byte :
        Try(StringDecoder_decode(byte.rd), LAMBDA key :
            IF RdbValueType_from_byte(byte.v) = None
            THEN RdbOk([key |-> key.v, value |-> None], key.rd)
            ELSE Try(StringDecoder_decode(key.rd), LAMBDA str_value :
                     RdbOk([key |-> key.v, value |-> Some(str_value.v)], str_value.rd))))

\* the end of decode_db_store_value: build unwraps the value of the builder
BuildStoreValue(key, b, rd) ==
    IF StoreValueBuilder_build_panics(b) THEN RdbPanic("unwrap", rd)
    ELSE RdbOk([key |-> key, value |-> StoreValueBuilder_build(b)], rd)

\* one call of decode_db_store_value: an expiration arm reads the timestamp and
\* builds, the other arm reads the value type, the key and the value and builds.
\* The expiration of the builder is in milliseconds. The timestamps of the
\* files explored are below 2^31: their conversion to i64 succeeds and they are
\* in the range of DateTime
decode_db_store_value(rd) ==
    Try(RdbFileReader_read_u8(rd), LAMBDA byte :
        CASE byte.v = TagExpireMillis ->
                Try(decode_expire_timestamp_in_miliseconds(byte.rd), LAMBDA exp :
                    BuildStoreValue(<<>>,
                        StoreValueBuilder_with_exp(StoreValueBuilder_new, exp.v), exp.rd))
          [] byte.v = TagExpireSeconds ->
                Try(decode_expire_timestamp_in_seconds(byte.rd), LAMBDA exp :
                    IF exp.v > I32Max THEN RdbErr("InvalidExpirationConversion", exp.rd)
                    ELSE BuildStoreValue(<<>>,
                             StoreValueBuilder_with_exp(StoreValueBuilder_new, exp.v * 1000),
                             exp.rd))
          [] OTHER ->
                Try(decode_db_key_value_pairs(
                        RdbFileReader_write_byte_to_buf(byte.rd, byte.v)), LAMBDA db_value :
                    BuildStoreValue(db_value.v.key,
                        IF db_value.v.value # None
                        THEN StoreValueBuilder_with_value(StoreValueBuilder_new,
                                                          db_value.v.value[1])
                        ELSE StoreValueBuilder_new,
                        db_value.rd)))

decode_size_information(rd) ==
    Try(RdbFileReader_read_u8(rd), LAMBDA byte :
        IF byte.v # TagSizes THEN RdbErr("InvalidSection", byte.rd)
        ELSE Try(SizeDecoder_decode(byte.rd), LAMBDA number_of_keys :
                 Try(SizeDecoder_decode(number_of_keys.rd), LAMBDA number_of_expired_keys :
                     RdbOk(<<number_of_keys.v, number_of_expired_keys.v>>,
                           number_of_expired_keys.rd))))

RdbDatabase_new(index) == [index |-> index, data |-> EmptyStore]

RECURSIVE DecodeValues(_, _)
\* the loop of decode_database: the byte read is put back; a section byte ends
\* the database, else one entry is decoded and set
DecodeValues(rd, database) ==
    Try(RdbFileReader_read_u8(rd), LAMBDA byte :
        IF RdbSection_from_byte(byte.v) # None
        THEN RdbOk(database, RdbFileReader_write_byte_to_buf(byte.rd, byte.v))
        ELSE Try(decode_db_store_value(RdbFileReader_write_byte_to_buf(byte.rd, byte.v)),
                 LAMBDA e :
                 DecodeValues(e.rd,
                     [database EXCEPT !.data = Store_set(@, e.v.key, e.v.value)])))

decode_database(rd) ==
    Try(SizeDecoder_decode(rd), LAMBDA db_index :
        IF db_index.v.k # "Length" THEN RdbErr("MissingDbIndex", db_index.rd)
        ELSE Try(decode_size_information(db_index.rd), LAMBDA sizes :
                 DecodeValues(sizes.rd, RdbDatabase_new(db_index.v.n))))

\* RdbDataDatabases::add_database: the database replaces the one of its index
add_database(databases, database) ==
    [i \in (DOMAIN databases) \cup {database.index} |->
        IF i = database.index THEN database ELSE databases[i]]

RECURSIVE DatabasesDecoder_loop(_, _)
\* the loop of DatabasesDecoder::decode; the result holds the databases and
\* the section that ended them
DatabasesDecoder_loop(rd, databases) ==
    Try(RdbFileReader_read_u8(rd), LAMBDA byte :
        IF RdbSection_from_byte(byte.v) # None
        THEN IF RdbSection_from_byte(byte.v)[1] # "DATABASE"
             THEN RdbOk([databases |-> databases,
                         section |-> RdbSection_from_byte(byte.v)[1]], byte.rd)
             ELSE DatabasesDecoder_loop(byte.rd, databases)
        ELSE Try(decode_database(RdbFileReader_write_byte_to_buf(byte.rd, byte.v)),
                 LAMBDA database :
                 DatabasesDecoder_loop(database.rd, add_database(databases, database.v))))

DatabasesDecoder_decode(rd) == DatabasesDecoder_loop(rd, <<>>)

T_redis_ver == <<"r", "e", "d", "i", "s", "-", "v", "e", "r">>
T_redis_bits == <<"r", "e", "d", "i", "s", "-", "b", "i", "t", "s">>
T_ctime == <<"c", "t", "i", "m", "e">>
T_used_mem == <<"u", "s", "e", "d", "-", "m", "e", "m">>

\* RdbDataMetadata::set_key: an unknown key is an error, which decode ignores
RdbDataMetadata_set_key(metadata, key, value) ==
    IF key \in {T_redis_ver, T_redis_bits, T_ctime, T_used_mem}
    THEN [k \in (DOMAIN metadata) \cup {key} |-> IF k = key THEN value ELSE metadata[k]]
    ELSE metadata

RECURSIVE MetadataDecoder_loop(_, _)
\* the loop of MetadataDecoder::decode
MetadataDecoder_loop(rd, metadata) ==
    Try(RdbFileReader_read_u8(rd), LAMBDA byte :
        IF RdbSection_from_byte(byte.v) # None
        THEN IF RdbSection_from_byte(byte.v)[1] # "METADATA"
             THEN RdbOk([metadata |-> metadata,
                         section |-> RdbSection_from_byte(byte.v)[1]], byte.rd)
             ELSE MetadataDecoder_loop(byte.rd, metadata)
        ELSE Try(StringDecoder_decode(RdbFileReader_write_byte_to_buf(byte.rd, byte.v)),
                 LAMBDA key :
                 Try(StringDecoder_decode(key.rd), LAMBDA value :
                     MetadataDecoder_loop(value.rd,
                         RdbDataMetadata_set_key(metadata, key.v, value.v)))))

MetadataDecoder_decode(rd) == MetadataDecoder_loop(rd, EmptyStore)

HeaderDecoder_decode(rd) ==
    Try(RdbFileReader_read_exact(rd, 5), LAMBDA magic_string_decoded :
        IF ~from_utf8(magic_string_decoded.v).ok
        THEN RdbErr("InvalidStringConversion", magic_string_decoded.rd)
        ELSE Try(RdbFileReader_read_exact(magic_string_decoded.rd, 4),
                 LAMBDA version_decoded :
                 IF ~from_utf8(version_decoded.v).ok
                 THEN RdbErr("InvalidStringConversion", version_decoded.rd)
                 ELSE RdbOk([magic_string |-> from_utf8(magic_string_decoded.v).v,
                             version |-> from_utf8(version_decoded.v).v],
                            version_decoded.rd)))

\* RdbDataBuilder::build
RdbDataBuilder_build(builder) ==
    [header |-> builder.header[1], metadata |-> builder.metadata,
     databases |-> builder.databases,
     checksum |-> IF builder.checksum = None THEN 0 ELSE builder.checksum[1]]

RECURSIVE RdbFileDecoder_loop(_, _, _)
\* the loop of RdbFileDecoder::decode after the header: a metadata or a database
\* section is decoded into the builder, another section ends the loop
RdbFileDecoder_loop(rd, current_section, builder) ==
    CASE current_section = "METADATA" ->
            Try(MetadataDecoder_decode(rd), LAMBDA metadata :
                RdbFileDecoder_loop(metadata.rd, metadata.v.section,
                    [builder EXCEPT !.metadata = Some(metadata.v.metadata)]))
      [] current_section = "DATABASE" ->
            Try(DatabasesDecoder_decode(rd), LAMBDA databases :
                RdbFileDecoder_loop(databases.rd, databases.v.section,
                    [builder EXCEPT !.databases = Some(databases.v.databases)]))
      [] OTHER -> RdbOk(RdbDataBuilder_build(builder), rd)

\* RdbFileDecoder::decode on the bytes of the file
RdbFileDecoder_decode(file) ==
    Try(HeaderDecoder_decode(RdbFileReader_new(file)), LAMBDA header :
        RdbFileDecoder_loop(header.rd, "METADATA",
            [header |-> Some(header.v), metadata |-> None, databases |-> None,
             checksum |-> None]))

(***************************************************************************)
(* Bounds and inputs                                                       *)
(***************************************************************************)
\* the requests the clients send in one run, over all connections
MaxSends == 2
\* the last value of the clock, in milliseconds
MaxTime == 2
\* nesting depth of the frames given to the codec
MaxDepth == 2

Conns == {1, 2}

K_a == <<"a">>
K_b == <<"b">>
V_1 == <<"1">>
V_2 == <<"2">>

\* a request as a client sends it: an Array of BulkStrings
Request(args) == RespEncoder_encode(Array([i \in 1..Len(args) |-> BulkString(args[i])]))

StoreRequests ==
    { <<T_SET, K_b, V_2>>,
      <<T_SET, K_a, V_2, <<"p", "x">>, <<"1">>>>,
      <<T_SET, K_b, V_1, T_PX, <<"1">>>>,
      <<T_GET, K_a>>,
      <<T_GET, K_b>>,
      <<T_KEYS, T_STAR>> }

GoodRequests ==
    { <<T_PING>>,
      <<T_GET, K_b>> }

\* SET requests that fail: no key, no value, an unknown option name, PX without
\* a value, PX with a value that is not an integer
BadSetRequests ==
    { <<T_SET>>,
      <<T_SET, K_a>>,
      <<T_SET, K_a, V_2, <<"E", "X">>, <<"1">>>>,
      <<T_SET, K_a, V_2, T_PX>>,
      <<T_SET, K_b, V_2, T_PX, <<"x">>>> }

\* other requests with a command-level error
BadRequests ==
    { <<<<"F", "O", "O">>>>,
      <<T_GET>>,
      <<T_KEYS, K_a>>,
      <<T_INFO, <<"c", "p", "u">>>> }

\* messages that are not a request: an unknown tag, a frame that is not an Array
BadFrames ==
    { <<"x", CR, LF>>,
      RespEncoder_encode(SimpleString(T_PING)) }

\* a SET with PX, a SET of the same key without PX, and the GET of the key
ReplaceRequests ==
    { <<T_SET, K_b, V_1, T_PX, <<"1">>>>,
      <<T_SET, K_b, V_2>>,
      <<T_GET, K_b>> }

\* SET requests with a negative PX value, with PX given twice, with an unknown
\* option name after a PX pair, and the GET of the key
OptionRequests ==
    { <<T_SET, K_b, V_2, T_PX, <<"-", "1">>>>,
      <<T_SET, K_b, V_1, T_PX, <<"2">>, T_PX, <<"1">>>>,
      <<T_SET, K_b, V_1, <<"p", "x">>, <<"1">>, T_PX, <<"2">>>>,
      <<T_SET, K_b, V_1, T_PX, <<"1">>, <<"E", "X">>, <<"1">>>>,
      <<T_GET, K_b>> }

\* CONFIG GET of the two settings, of a setting in upper case and of a name
\* that is no setting
ConfigRequests ==
    { <<T_CONFIG, T_GET, T_dir>>,
      <<<<"c", "o", "n", "f", "i", "g">>, <<"g", "e", "t">>, T_dbfilename>>,
      <<T_CONFIG, T_GET, <<"D", "I", "R">>>>,
      <<T_CONFIG, T_GET, <<"p", "o", "r", "t">>>> }

\* the empty Array and an Array without a BulkString element
EmptyRequests ==
    { RespEncoder_encode(Array(<<>>)),
      RespEncoder_encode(Array(<<SimpleString(T_PING)>>)) }

\* names in lower and mixed case, names that go on after the name of a
\* command, and names that start with no command
DispatchRequests ==
    { <<<<"p", "i", "n", "g">>>>,
      <<<<"P", "I", "N", "G", "S">>>>,
      <<<<"e", "c", "h", "o", "x">>, <<"h", "i">>>>,
      <<<<"G", "e", "t", "x">>, K_b>>,
      <<<<"s", "e", "t", "t", "l", "e">>, K_b, V_2>>,
      <<T_CONFIG, <<"g", "e", "t", "a", "l", "l">>, T_dir>>,
      <<<<"k", "e", "y", "s", "x">>, T_STAR>>,
      <<<<"I", "n", "f", "o", "r", "m">>, T_replication>>,
      <<T_CONFIG>>,
      <<T_CONFIG, T_SET, T_dir>>,
      <<<<"X", "P", "I", "N", "G">>>> }

Messages(scn) ==
    CASE scn = "store" -> {Request(r) : r \in StoreRequests}
      [] scn = "badset" -> {Request(r) : r \in GoodRequests \cup BadSetRequests}
      [] scn = "errors" -> {Request(r) : r \in GoodRequests \cup BadRequests} \cup BadFrames
      [] scn = "snapshot" -> {Request(<<T_GET, K_b>>), Request(<<T_SET, K_b, V_1>>)}
      [] scn = "follower" -> {Request(<<T_PING>>)}
      [] scn = "replace" -> {Request(r) : r \in ReplaceRequests}
      [] scn = "options" -> {Request(r) : r \in OptionRequests}
      [] scn = "config" -> {Request(r) : r \in ConfigRequests}
      [] scn = "dispatch" -> {Request(r) : r \in DispatchRequests}
      [] scn = "empty" -> EmptyRequests \cup {Request(<<T_SET, K_b, V_2>>)}
      [] OTHER -> {}

\* the request that reaches the server in two parts
SplitRequests == { <<T_ECHO, <<"h", "i">>>> }

\* where a request is cut: after the header of the Array, inside the payload
\* of its last BulkString, between the last CR and LF
SplitPoints(m) == {4, Len(m) - 3, Len(m) - 1}

\* the requests sent in two parts, with the sizes of their first parts
Fragmented(scn) ==
    IF scn = "split"
    THEN UNION {{[m |-> Request(r), cut |-> i] : i \in SplitPoints(Request(r))} :
                  r \in SplitRequests}
    ELSE {}

\* ServerRole
Master == [kind |-> "master"]
Slave(addr) == [kind |-> "slave", addr |-> addr]

\* the address of the server and the address given with --replicaof
ServerAddr == "127.0.0.1:6379"
LeaderAddr == "127.0.0.1:6380"

\* the settings main.rs gives the server
Configs ==
    { [dir |-> None, dbfilename |-> None, role |-> Master],
      [dir |-> Some(<<"/", "d">>), dbfilename |-> None, role |-> Master],
      [dir |-> Some(<<"/", "d">>), dbfilename |-> Some(<<"f">>), role |-> Master],
      [dir |-> Some(<<"/", "d">>), dbfilename |-> Some(<<"f">>), role |-> Slave(LeaderAddr)] }

\* the byte of a character
Ord(ch) == CHOOSE b \in 45..122 : Chr(b) = ch

\* a text as a snapshot string: its length in one byte, then its bytes
RdbString(text) == <<Len(text)>> \o [i \in 1..Len(text) |-> Ord(text[i])]

\* an entry of a database section: no prefix, or the prefix of an expiration
\* in milliseconds or in seconds with the timestamp in little-endian bytes;
\* then the value type, the key and the value
RdbEntry(e) ==
    (CASE e.prefix = "ms" -> <<TagExpireMillis, e.exp, 0, 0, 0, 0, 0, 0, 0>>
       [] e.prefix = "s" -> <<TagExpireSeconds, e.exp, 0, 0, 0>>
       [] OTHER -> <<>>)
    \o <<0>> \o RdbString(e.key) \o RdbString(e.value)

RECURSIVE RdbEntries(_)
RdbEntries(es) == IF es = <<>> THEN <<>> ELSE RdbEntry(Head(es)) \o RdbEntries(Tail(es))

\* a snapshot file: the header, one metadata entry, the database of index 0
\* with its entries, the end of the file and the 8 bytes of the checksum
RdbFileBytes(es) ==
    [i \in 1..9 |-> Ord(<<"R", "E", "D", "I", "S", "0", "0", "1", "1">>[i])]
    \o <<TagMetadata>> \o RdbString(T_redis_ver) \o RdbString(<<"7", ".", "0">>)
    \o <<TagDatabase, 0, TagSizes, Len(es), 0>>
    \o RdbEntries(es)
    \o <<TagEndOfFile, 1, 2, 3, 4, 5, 6, 7, 8>>

PlainEntry(key, value) == [prefix |-> "none", key |-> key, value |-> value]
ExpiringEntry(prefix, exp, key, value) ==
    [prefix |-> prefix, exp |-> exp, key |-> key, value |-> value]

NoFile == [found |-> FALSE]
RdbFile(es, len) ==
    [found |-> TRUE, entries |-> es, bytes |-> SubSeq(RdbFileBytes(es), 1, len)]

\* the whole file with the entry b -> 9
GoodFile ==
    RdbFile(<<PlainEntry(K_b, <<"9">>)>>, Len(RdbFileBytes(<<PlainEntry(K_b, <<"9">>)>>)))

\* the file with the entries a -> 1 and b -> 9 cut after len bytes, for every
\* len that leaves out the end of the file
TruncatedFiles ==
    LET es == <<PlainEntry(K_a, V_1), PlainEntry(K_b, <<"9">>)>>
    IN  {RdbFile(es, len) : len \in 0..(Len(RdbFileBytes(es)) - 9)}

\* files whose second entry has an expiration prefix
ExpiringFiles ==
    {RdbFile(<<PlainEntry(K_a, V_1), ExpiringEntry(p, 1, K_b, <<"9">>)>>,
             Len(RdbFileBytes(<<PlainEntry(K_a, V_1), ExpiringEntry(p, 1, K_b, <<"9">>)>>))) :
        p \in {"ms", "s"}}

\* the snapshot file at the configured path: missing, or its bytes
RdbFiles == {NoFile, GoodFile} \cup TruncatedFiles \cup ExpiringFiles

\* the ServerInfo of a leader
ServerInfo == [role |-> <<"m", "a", "s", "t", "e", "r">>, id |-> <<"i", "d">>, offset |-> 0]

(***************************************************************************)
(* State                                                                   *)
(***************************************************************************)
VARIABLES
    server,     \* where Server::listen is: "new", "bound", "listening", "failed"
    config,     \* ServerConfig
    rdb,        \* the snapshot file
    store,      \* Store::data
    mutex,      \* the connection that holds the store lock, 0 when it is free
    poisoned,   \* a task panicked while it held the store lock
    now,        \* Utc::now(), in milliseconds
    pc,         \* per connection: where its task is
    inbuf,      \* per connection: the bytes sent by the client and not read yet
    outbuf,     \* per connection: the replies written, in order
    peerClosed, \* per connection: the client closed its side
    task,       \* per connection: the locals of the task's current turn
    sent,       \* per connection: the number of requests the client sent
    obs,        \* per connection: what its last GET or KEYS observed
    lastSet,    \* per key: the last write of the key that completed
    scenario,   \* the set of messages the clients choose from
    pending,    \* per connection: the bytes of a request the client has not written yet
    replica,    \* the task spawned for the follower role
    codec       \* the frame under the codec, for the codec specification

vars == <<server, config, rdb, store, mutex, poisoned, now, pc, inbuf, outbuf,
          peerClosed, task, sent, obs, lastSet, scenario, pending, replica, codec>>

serverVars == <<server, config, rdb, store, mutex, poisoned, now, pc, inbuf, outbuf,
                peerClosed, task, sent, obs, lastSet, scenario, pending, replica>>

NoTask == [message |-> <<>>, args |-> <<>>, out |-> [kind |-> "none"], at |-> 0,
           afterPanic |-> FALSE]
NoReplica == [pc |-> "none"]
NoObs == [cmd |-> "none"]
CodecOff == [pc |-> "off"]

\* the runs explored: the messages of the clients, the settings and the file
Setups ==
    LET plain == [dir |-> None, dbfilename |-> None, role |-> Master]
        dirOnly == [dir |-> Some(<<"/", "d">>), dbfilename |-> None, role |-> Master]
        withPath == [dir |-> Some(<<"/", "d">>), dbfilename |-> Some(<<"f">>),
                     role |-> Master]
        follower == [dir |-> Some(<<"/", "d">>), dbfilename |-> Some(<<"f">>),
                     role |-> Slave(LeaderAddr)]
    IN  { [scenario |-> "store", config |-> plain, rdb |-> NoFile],
          [scenario |-> "snapshot", config |-> withPath, rdb |-> GoodFile],
          [scenario |-> "badset", config |-> withPath, rdb |-> GoodFile],
          [scenario |-> "errors", config |-> withPath, rdb |-> NoFile],
          [scenario |-> "split", config |-> plain, rdb |-> NoFile],
          [scenario |-> "follower", config |-> follower, rdb |-> GoodFile],
          [scenario |-> "replace", config |-> plain, rdb |-> NoFile],
          [scenario |-> "options", config |-> plain, rdb |-> NoFile],
          [scenario |-> "config", config |-> plain, rdb |-> NoFile],
          [scenario |-> "config", config |-> dirOnly, rdb |-> NoFile],
          [scenario |-> "config", config |-> withPath, rdb |-> NoFile],
          [scenario |-> "dispatch", config |-> dirOnly, rdb |-> NoFile],
          [scenario |-> "empty", config |-> plain, rdb |-> NoFile] }
        \cup {[scenario |-> "errors", config |-> withPath, rdb |-> f] :
                f \in TruncatedFiles \cup ExpiringFiles}

\* the state after Server::new, before any connection
Constructed ==
    /\ store = EmptyStore
    /\ mutex = 0
    /\ poisoned = FALSE
    /\ now = 0
    /\ pc = [c \in Conns |-> "idle"]
    /\ inbuf = [c \in Conns |-> <<>>]
    /\ outbuf = [c \in Conns |-> <<>>]
    /\ peerClosed = [c \in Conns |-> FALSE]
    /\ task = [c \in Conns |-> NoTask]
    /\ sent = [c \in Conns |-> 0]
    /\ obs = [c \in Conns |-> NoObs]
    /\ lastSet = EmptyStore
    /\ pending = [c \in Conns |-> <<>>]

ServerInit ==
    /\ \E s \in Setups : scenario = s.scenario /\ config = s.config /\ rdb = s.rdb
    /\ server = "new"
    /\ replica = NoReplica
    /\ Constructed

Init == ServerInit /\ codec = CodecOff

(***************************************************************************)
(* Startup (Server::listen, RdbSync::sync)                                 *)
(***************************************************************************)
\* ServerConfig::get_rdb_path
get_rdb_path(server_config) ==
    IF server_config.dir = None \/ server_config.dbfilename = None THEN None
    ELSE Some(server_config.dir[1] \o <<"/">> \o server_config.dbfilename[1])

RECURSIVE InsertAll(_, _, _)
\* the loops of sync: every entry of every database is set, in the order dbs
\* of the database indexes
InsertAll(data, databases, dbs) ==
    IF dbs = <<>> THEN data
    ELSE LET database == databases[Head(dbs)].data
             merged == [k \in (DOMAIN data) \cup (DOMAIN database) |->
                           IF k \in DOMAIN database
                           THEN Store_set(data, k, database[k])[k]
                           ELSE data[k]]
         IN  InsertAll(merged, databases, Tail(dbs))

\* the orders in which the map of databases can be iterated
DatabaseOrders(databases) ==
    {o \in [1..Cardinality(DOMAIN databases) -> DOMAIN databases] :
        \A i, j \in DOMAIN o : i # j => o[i] # o[j]}

\* the end of RdbSync::sync: the error or the panic of the decoder with the
\* store left as it is; else "ok" with the decoded entries set
SetDecoded(data, rdb_data) ==
    IF rdb_data.kind # "ok" THEN {[kind |-> rdb_data.kind, data |-> data]}
    ELSE IF rdb_data.v.databases = None THEN {[kind |-> "ok", data |-> data]}
    ELSE {[kind |-> "ok", data |-> InsertAll(data, rdb_data.v.databases[1], o)] :
            o \in DatabaseOrders(rdb_data.v.databases[1])}

\* the error of the decoder is dropped
RdbSync_sync_lenient(data, file) ==
    IF ~file.found THEN {[kind |-> "ok", data |-> data]}
    ELSE {[kind |-> "ok", data |-> r.data] :
            r \in SetDecoded(data, RdbFileDecoder_decode(file.bytes))}

\* a file that is missing is an error
RdbSync_sync_strict(data, file) ==
    IF ~file.found THEN {[kind |-> "err", data |-> data]}
    ELSE SetDecoded(data, RdbFileDecoder_decode(file.bytes))

\* RdbSync::sync: "ok" with the store left as it is when the file is missing;
\* else the bytes of the file are decoded
RdbSync_sync(data, file) ==
    IF ~file.found THEN {[kind |-> "ok", data |-> data]}
    ELSE SetDecoded(data, RdbFileDecoder_decode(file.bytes))

\* TcpListener::bind on the server address succeeds
Bind ==
    /\ server = "new"
    /\ server' = "bound"
    /\ UNCHANGED <<config, rdb, store, mutex, poisoned, now, pc, inbuf, outbuf,
                   peerClosed, task, sent, obs, lastSet, scenario, pending, replica, codec>>

\* TcpListener::bind fails: listen returns the error
BindFails ==
    /\ server = "new"
    /\ server' = "failed"
    /\ UNCHANGED <<config, rdb, store, mutex, poisoned, now, pc, inbuf, outbuf,
                   peerClosed, task, sent, obs, lastSet, scenario, pending, replica, codec>>

\* the task spawned for the follower role, when the role is Slave
SpawnReplica(role) == IF role.kind = "slave" THEN [pc |-> "spawned"] ELSE NoReplica

\* the snapshot is loaded when a path is configured: its error ends listen, its
\* panic ends the process; then the task of the follower role is spawned and
\* the accept loop starts
LoadSnapshot ==
    /\ server = "bound"
    /\ IF get_rdb_path(config) = None
       THEN /\ server' = "listening"
            /\ replica' = SpawnReplica(config.role)
            /\ UNCHANGED <<store, lastSet>>
       ELSE \E r \in RdbSync_sync(store, rdb) :
              IF r.kind = "ok"
              THEN /\ server' = "listening"
                   /\ replica' = SpawnReplica(config.role)
                   /\ store' = r.data
                   /\ lastSet' = [k \in DOMAIN r.data |->
                                    [src |-> "rdb", value |-> r.data[k].value,
                                     opts |-> <<>>, at |-> 0, entry |-> r.data[k]]]
              ELSE /\ server' = IF r.kind = "err" THEN "failed" ELSE "panicked"
                   /\ UNCHANGED <<store, lastSet, replica>>
    /\ UNCHANGED <<config, rdb, mutex, poisoned, now, pc, inbuf, outbuf,
                   peerClosed, task, sent, obs, scenario, pending, codec>>

\* the spawned task binds a listener on the address of the role
ReplicaBind ==
    /\ replica.pc = "spawned"
    /\ replica' = [pc |-> "listening", addr |-> config.role.addr]
    /\ UNCHANGED <<server, config, rdb, store, mutex, poisoned, now, pc, inbuf, outbuf,
                   peerClosed, task, sent, obs, lastSet, scenario, pending, codec>>

\* the panic of the spawned task ends the process
ReplicaBindFails_fatal ==
    /\ replica.pc = "spawned"
    /\ replica' = [pc |-> "panicked"]
    /\ server' = "panicked"
    /\ UNCHANGED <<config, rdb, store, mutex, poisoned, now, pc, inbuf, outbuf,
                   peerClosed, task, sent, obs, lastSet, scenario, pending, codec>>

\* the bind fails and expect panics in the spawned task
ReplicaBindFails ==
    /\ replica.pc = "spawned"
    /\ replica' = [pc |-> "panicked"]
    /\ UNCHANGED <<server, config, rdb, store, mutex, poisoned, now, pc, inbuf, outbuf,
                   peerClosed, task, sent, obs, lastSet, scenario, pending, codec>>

\* the listener of the spawned task accepts one connection and the task ends
ReplicaAccept ==
    /\ replica.pc = "listening"
    /\ replica' = [pc |-> "done"]
    /\ UNCHANGED <<server, config, rdb, store, mutex, poisoned, now, pc, inbuf, outbuf,
                   peerClosed, task, sent, obs, lastSet, scenario, pending, codec>>

(***************************************************************************)
(* Clients and clock                                                       *)
(***************************************************************************)
RECURSIVE SumSent(_)
SumSent(S) ==
    IF S = {} THEN 0
    ELSE LET c == CHOOSE x \in S : TRUE IN sent[c] + SumSent(S \ {c})

\* the scenarios with one client, whose requests arrive one after the other
Sequential == {"replace", "options", "config", "dispatch", "empty"}

\* the clients that connect
Clients(scn) == IF scn \in Sequential THEN {1} ELSE Conns

\* the number of messages the clients send in a run
Sends(scn) == IF scn = "replace" THEN MaxSends + 1 ELSE MaxSends

SendsLeft == SumSent(Conns) < Sends(scenario)

\* the accept loop runs as soon as the listener is bound
Accept_early(c) ==
    /\ server \in {"bound", "listening"}
    /\ pc[c] = "idle"
    /\ c \in Clients(scenario)
    /\ \A d \in Conns : d < c => pc[d] # "idle"
    /\ pc' = [pc EXCEPT ![c] = "read"]
    /\ UNCHANGED <<server, config, rdb, store, mutex, poisoned, now, inbuf, outbuf,
                   peerClosed, task, sent, obs, lastSet, scenario, pending, replica, codec>>

\* listener.accept returns the connection of a client and its task is spawned
Accept(c) ==
    /\ server = "listening"
    /\ pc[c] = "idle"
    /\ c \in Clients(scenario)
    /\ \A d \in Conns : d < c => pc[d] # "idle"
    /\ pc' = [pc EXCEPT ![c] = "read"]
    /\ UNCHANGED <<server, config, rdb, store, mutex, poisoned, now, inbuf, outbuf,
                   peerClosed, task, sent, obs, lastSet, scenario, pending, replica, codec>>

\* a client writes one message to its socket. The bytes that arrive while the
\* task is busy are seen by its next read together with the ones that arrive
\* until then, so the arrival is taken when the task is at its read
ClientSend(c) ==
    /\ pc[c] = "read"
    /\ ~peerClosed[c]
    /\ SendsLeft
    /\ \E m \in Messages(scenario) : inbuf' = [inbuf EXCEPT ![c] = @ \o m]
    /\ sent' = [sent EXCEPT ![c] = @ + 1]
    /\ UNCHANGED <<server, config, rdb, store, mutex, poisoned, now, pc, outbuf,
                   peerClosed, task, obs, lastSet, scenario, pending, replica, codec>>

\* a client writes the first part of a request; the rest is written later
ClientSendPart(c) ==
    /\ pc[c] = "read"
    /\ ~peerClosed[c]
    /\ SendsLeft
    /\ pending[c] = <<>>
    /\ \E f \in Fragmented(scenario) :
         /\ inbuf' = [inbuf EXCEPT ![c] = @ \o SubSeq(f.m, 1, f.cut)]
         /\ pending' = [pending EXCEPT ![c] = SubSeq(f.m, f.cut + 1, Len(f.m))]
    /\ sent' = [sent EXCEPT ![c] = @ + 1]
    /\ UNCHANGED <<server, config, rdb, store, mutex, poisoned, now, pc, outbuf,
                   peerClosed, task, obs, lastSet, scenario, replica, codec>>

\* the client writes the rest of the request
ClientSendRest(c) ==
    /\ pc[c] = "read"
    /\ pending[c] # <<>>
    /\ inbuf' = [inbuf EXCEPT ![c] = @ \o pending[c]]
    /\ pending' = [pending EXCEPT ![c] = <<>>]
    /\ UNCHANGED <<server, config, rdb, store, mutex, poisoned, now, pc, outbuf,
                   peerClosed, task, sent, obs, lastSet, scenario, replica, codec>>

\* a client closes its side of the connection after its last message; the
\* task sees it at a read that finds no byte
ClientClose(c) ==
    /\ pc[c] = "read"
    /\ inbuf[c] = <<>>
    /\ pending[c] = <<>>
    /\ ~peerClosed[c]
    /\ peerClosed' = [peerClosed EXCEPT ![c] = TRUE]
    /\ UNCHANGED <<server, config, rdb, store, mutex, poisoned, now, pc, inbuf, outbuf,
                   task, sent, obs, lastSet, scenario, pending, replica, codec>>

\* a task is about to read the clock: SET reads it for PX, GET for the expiration
ClockRead ==
    \E c \in Conns : \/ pc[c] = "read" /\ inbuf[c] # <<>>
                     \/ pc[c] = "lock"

\* a clock that also goes backwards by one millisecond
Tick_back ==
    /\ ClockRead
    /\ \/ now < MaxTime /\ now' = now + 1
       \/ now > 0 /\ now' = now - 1
    /\ UNCHANGED <<server, config, rdb, store, mutex, poisoned, pc, inbuf, outbuf,
                   peerClosed, task, sent, obs, lastSet, scenario, pending, replica, codec>>

\* the clock advances by one millisecond; the advance is taken when a task is
\* about to read the clock
Tick ==
    /\ now < MaxTime
    /\ ClockRead
    /\ now' = now + 1
    /\ UNCHANGED <<server, config, rdb, store, mutex, poisoned, pc, inbuf, outbuf,
                   peerClosed, task, sent, obs, lastSet, scenario, pending, replica, codec>>

(***************************************************************************)
(* The task of a connection (the loop spawned by Server::listen)           *)
(***************************************************************************)
\* the history of the writes: the last write of key is w
Record(history, key, w) ==
    [k \in (DOMAIN history) \cup {key} |-> IF k = key THEN w ELSE history[k]]

\* the lock is taken without waiting for its holder
CanLock_always == TRUE

\* Mutex::lock returns when no task holds the lock
CanLock == mutex = 0

SomePanicked == \E d \in Conns : pc[d] = "panicked"

\* a read that waits for bytes after the peer has closed its side
Read_wait(c) ==
    /\ pc[c] = "read"
    /\ inbuf[c] # <<>>
    /\ LET message == inbuf[c]
       IN  IF message = <<>>
           THEN /\ pc' = [pc EXCEPT ![c] = "closed"]
                /\ UNCHANGED <<inbuf, task>>
           ELSE LET h == HandleMessage(message, now, config, ServerInfo)
                IN  /\ inbuf' = [inbuf EXCEPT ![c] = <<>>]
                    /\ task' = [task EXCEPT ![c] =
                                  [message |-> message, args |-> h.args, out |-> h.out,
                                   at |-> now, afterPanic |-> SomePanicked]]
                    /\ pc' = [pc EXCEPT ![c] =
                                CASE h.out.kind = "reply" -> "write"
                                  [] h.out.kind = "lock" -> "lock"
                                  [] OTHER -> "panicked"]
    /\ UNCHANGED <<server, config, rdb, store, mutex, poisoned, now, outbuf,
                   peerClosed, sent, obs, lastSet, scenario, pending, replica, codec>>

\* TcpStreamReader::read returns all the bytes available; an empty message ends
\* the loop; else one value is decoded and the command runs up to its reply,
\* its error (which expect turns into a panic) or its call of lock
Read(c) ==
    /\ pc[c] = "read"
    /\ inbuf[c] # <<>> \/ peerClosed[c]
    /\ LET message == inbuf[c]
       IN  IF message = <<>>
           THEN /\ pc' = [pc EXCEPT ![c] = "closed"]
                /\ UNCHANGED <<inbuf, task>>
           ELSE LET h == HandleMessage(message, now, config, ServerInfo)
                IN  /\ inbuf' = [inbuf EXCEPT ![c] = <<>>]
                    /\ task' = [task EXCEPT ![c] =
                                  [message |-> message, args |-> h.args, out |-> h.out,
                                   at |-> now, afterPanic |-> SomePanicked]]
                    /\ pc' = [pc EXCEPT ![c] =
                                CASE h.out.kind = "reply" -> "write"
                                  [] h.out.kind = "lock" -> "lock"
                                  [] OTHER -> "panicked"]
    /\ UNCHANGED <<server, config, rdb, store, mutex, poisoned, now, outbuf,
                   peerClosed, sent, obs, lastSet, scenario, pending, replica, codec>>

\* SetCommand::generate_reply from lock to the first half of the insertion: the
\* value of the entry is in the map, its expiration is not yet
SetLock(c) ==
    /\ pc[c] = "lock"
    /\ task[c].out.op = "SET"
    /\ CanLock
    /\ LET key == task[c].out.key
           b == task[c].out.builder
       IN  IF poisoned
           THEN /\ pc' = [pc EXCEPT ![c] = "panicked"]
                /\ task' = [task EXCEPT ![c].out = Err("Store")]
                /\ UNCHANGED <<store, mutex, poisoned>>
           ELSE IF StoreValueBuilder_build_panics(b)
           THEN /\ pc' = [pc EXCEPT ![c] = "panicked"]
                /\ task' = [task EXCEPT ![c].out = [kind |-> "panic", err |-> "unwrap"]]
                /\ poisoned' = TRUE
                /\ UNCHANGED <<store, mutex>>
           ELSE /\ pc' = [pc EXCEPT ![c] = "set"]
                /\ mutex' = c
                /\ store' = Store_set(store, key,
                                StoreValue(StoreValueBuilder_build(b).value,
                                           IF key \in DOMAIN store THEN store[key].exp
                                           ELSE None))
                /\ UNCHANGED <<task, poisoned>>
    /\ UNCHANGED <<server, config, rdb, now, inbuf, outbuf, peerClosed, sent, obs,
                   lastSet, scenario, pending, replica, codec>>

\* the second half of the insertion and the reply OK, with the lock still held
\* when the reply is written
SetUnlock_held(c) ==
    /\ pc[c] = "set"
    /\ LET key == task[c].out.key
           entry == StoreValueBuilder_build(task[c].out.builder)
       IN  /\ store' = Store_set(store, key, StoreValue(store[key].value, entry.exp))
           /\ lastSet' = Record(lastSet, key,
                            [src |-> "set", value |-> task[c].args[3],
                             opts |-> SubSeq(task[c].args, 4, Len(task[c].args)),
                             at |-> IF Len(task[c].args) > 3 THEN task[c].at ELSE 0,
                             entry |-> entry, over |-> store[key].exp])
    /\ mutex' = mutex
    /\ task' = [task EXCEPT ![c].out = Reply(RespEncoder_encode(SimpleString(T_OK)))]
    /\ pc' = [pc EXCEPT ![c] = "write"]
    /\ UNCHANGED <<server, config, rdb, poisoned, now, inbuf, outbuf, peerClosed,
                   sent, obs, scenario, pending, replica, codec>>

\* the second half of the insertion, the release of the lock and the reply OK
SetUnlock(c) ==
    /\ pc[c] = "set"
    /\ LET key == task[c].out.key
           entry == StoreValueBuilder_build(task[c].out.builder)
       IN  /\ store' = Store_set(store, key, StoreValue(store[key].value, entry.exp))
           /\ lastSet' = Record(lastSet, key,
                            [src |-> "set", value |-> task[c].args[3],
                             opts |-> SubSeq(task[c].args, 4, Len(task[c].args)),
                             at |-> IF Len(task[c].args) > 3 THEN task[c].at ELSE 0,
                             entry |-> entry, over |-> store[key].exp])
    /\ mutex' = 0
    /\ task' = [task EXCEPT ![c].out = Reply(RespEncoder_encode(SimpleString(T_OK)))]
    /\ pc' = [pc EXCEPT ![c] = "write"]
    /\ UNCHANGED <<server, config, rdb, poisoned, now, inbuf, outbuf, peerClosed,
                   sent, obs, scenario, pending, replica, codec>>

\* the keys whose expiration, if any, has not passed at the time clock
LiveKeys(data, clock) ==
    {k \in DOMAIN data : data[k].exp = None \/ ~(data[k].exp[1] < clock)}

\* a GET that finds an expired entry removes it from the map
GetLock_evict(c) ==
    /\ pc[c] = "lock"
    /\ task[c].out.op = "GET"
    /\ CanLock
    /\ LET key == task[c].out.key
       IN  IF poisoned
           THEN /\ pc' = [pc EXCEPT ![c] = "panicked"]
                /\ task' = [task EXCEPT ![c].out = Err("Store")]
                /\ UNCHANGED <<obs, store>>
           ELSE /\ pc' = [pc EXCEPT ![c] = "write"]
                /\ store' = IF key \in DOMAIN store /\ key \notin LiveKeys(store, now)
                            THEN [k \in (DOMAIN store) \ {key} |-> store[k]]
                            ELSE store
                /\ task' = [task EXCEPT ![c].out =
                              Reply(GetCommand_reply(store, key, now))]
                /\ obs' = [obs EXCEPT ![c] =
                             [cmd |-> "GET", key |-> key, now |-> now,
                              reply |-> GetCommand_reply(store, key, now),
                              entry |-> Store_get(store, key),
                              last |-> IF key \in DOMAIN lastSet THEN Some(lastSet[key])
                                       ELSE None]]
    /\ UNCHANGED <<server, config, rdb, mutex, poisoned, now, inbuf, outbuf,
                   peerClosed, sent, lastSet, scenario, pending, replica, codec>>

\* GetCommand::generate_reply from lock to its result
GetLock(c) ==
    /\ pc[c] = "lock"
    /\ task[c].out.op = "GET"
    /\ CanLock
    /\ LET key == task[c].out.key
       IN  IF poisoned
           THEN /\ pc' = [pc EXCEPT ![c] = "panicked"]
                /\ task' = [task EXCEPT ![c].out = Err("Store")]
                /\ UNCHANGED obs
           ELSE /\ pc' = [pc EXCEPT ![c] = "write"]
                /\ task' = [task EXCEPT ![c].out =
                              Reply(GetCommand_reply(store, key, now))]
                /\ obs' = [obs EXCEPT ![c] =
                             [cmd |-> "GET", key |-> key, now |-> now,
                              reply |-> GetCommand_reply(store, key, now),
                              entry |-> Store_get(store, key),
                              last |-> IF key \in DOMAIN lastSet THEN Some(lastSet[key])
                                       ELSE None]]
    /\ UNCHANGED <<server, config, rdb, store, mutex, poisoned, now, inbuf, outbuf,
                   peerClosed, sent, lastSet, scenario, pending, replica, codec>>

\* KeysCommand::generate_reply from lock to its result
KeysLock(c) ==
    /\ pc[c] = "lock"
    /\ task[c].out.op = "KEYS"
    /\ CanLock
    /\ IF poisoned
       THEN /\ pc' = [pc EXCEPT ![c] = "panicked"]
            /\ task' = [task EXCEPT ![c].out = Err("Store")]
            /\ UNCHANGED obs
       ELSE \E keys \in Store_get_all_keys(store) :
            /\ pc' = [pc EXCEPT ![c] = "write"]
            /\ task' = [task EXCEPT ![c].out = Reply(KeysCommand_reply(keys))]
            /\ obs' = [obs EXCEPT ![c] =
                         [cmd |-> "KEYS", now |-> now, keys |-> keys,
                          reply |-> KeysCommand_reply(keys),
                          live |-> LiveKeys(store, now)]]
    /\ UNCHANGED <<server, config, rdb, store, mutex, poisoned, now, inbuf, outbuf,
                   peerClosed, sent, lastSet, scenario, pending, replica, codec>>

\* write_all sends the reply and the loop goes back to read
Write(c) ==
    /\ pc[c] = "write"
    /\ outbuf' = [outbuf EXCEPT ![c] = Append(@, task[c].out.buf)]
    /\ pc' = [pc EXCEPT ![c] = "read"]
    /\ task' = [task EXCEPT ![c] = NoTask]
    /\ obs' = [obs EXCEPT ![c] = NoObs]
    /\ UNCHANGED <<server, config, rdb, store, mutex, poisoned, now, inbuf,
                   peerClosed, sent, lastSet, scenario, pending, replica, codec>>

Next ==
    \/ Bind
    \/ BindFails
    \/ LoadSnapshot
    \/ ReplicaBind
    \/ ReplicaBindFails
    \/ ReplicaAccept
    \/ Tick
    \/ \E c \in Conns : Accept(c)
    \/ \E c \in Conns : ClientSend(c)
    \/ \E c \in Conns : ClientSendPart(c)
    \/ \E c \in Conns : ClientSendRest(c)
    \/ \E c \in Conns : ClientClose(c)
    \/ \E c \in Conns : Read(c)
    \/ \E c \in Conns : SetLock(c)
    \/ \E c \in Conns : SetUnlock(c)
    \/ \E c \in Conns : GetLock(c)
    \/ \E c \in Conns : KeysLock(c)
    \/ \E c \in Conns : Write(c)

Spec == Init /\ [][Next]_vars

(***************************************************************************)
(* The codec alone: a frame is encoded, the bytes are decoded               *)
(***************************************************************************)
Atoms ==
    { SimpleString(T_OK),
      BulkString(<<>>),
      BulkString(<<"a">>),
      BulkString(<<CR>>),
      BulkString(<<"a", LF, "b">>),
      BulkString(<<"+", "x">>),
      NullBulkString }

PairAtoms == {BulkString(<<"a">>), SimpleString(T_OK)}

RECURSIVE Frames(_)
\* the atoms, and the Arrays of one or two elements nested up to depth d
Frames(d) ==
    IF d = 0 THEN Atoms
    ELSE LET sub == Frames(d - 1)
         IN  Atoms \cup {Array(<<>>)}
             \cup {Array(<<x>>) : x \in sub}
             \cup {Array(<<a, x>>) : a \in PairAtoms, x \in sub}
             \cup {Array(<<x, a>>) : a \in PairAtoms, x \in sub}

CodecInit ==
    /\ codec \in {[pc |-> "frame", frame |-> f] : f \in Frames(MaxDepth)}
    /\ server = "off"
    /\ scenario = "codec"
    /\ config = [dir |-> None, dbfilename |-> None, role |-> Master]
    /\ rdb = NoFile
    /\ replica = NoReplica
    /\ Constructed

CodecEncode ==
    /\ codec.pc = "frame"
    /\ codec' = [pc |-> "wire", frame |-> codec.frame,
                 wire |-> RespEncoder_encode(codec.frame)]
    /\ UNCHANGED serverVars

CodecDecode ==
    /\ codec.pc = "wire"
    /\ codec' = [pc |-> "decoded", frame |-> codec.frame, wire |-> codec.wire,
                 dec |-> RespDecoder_decode(lines(codec.wire))]
    /\ UNCHANGED serverVars

CodecNext == CodecEncode \/ CodecDecode

SpecCodec == CodecInit /\ [][CodecNext]_vars

(***************************************************************************)
(* The decoder alone on the bytes of a socket read                         *)
(***************************************************************************)
\* the texts found where a length or a count is expected
LengthTexts == {<<"0">>, <<"1">>, <<"2">>, <<"3">>, <<"-", "2">>, <<"x">>, <<>>}

\* the payloads of the BulkStrings on the wire
Payloads == {<<>>, <<"a">>, <<CR>>, <<"a", "b">>, <<"a", LF, "b">>, <<"a", CR, LF>>}

BulkShape(len, payload) == [k |-> "bulk", len |-> len, payload |-> payload]
NullShape == [k |-> "null"]
ArrayShape(count, elems) == [k |-> "array", count |-> count, elems |-> elems]
OtherShape(tag, text) == [k |-> "other", tag |-> tag, text |-> text]

\* the element lists of the Arrays on the wire
ElementLists ==
    { <<>>,
      <<BulkShape(<<"1">>, <<"a">>)>>,
      <<NullShape>>,
      <<NullShape, BulkShape(<<"1">>, <<"a">>)>>,
      <<BulkShape(<<"1">>, <<"a">>), NullShape>>,
      <<BulkShape(<<"1">>, <<"a">>), BulkShape(<<"2">>, <<"a", "b">>)>> }

\* what the wire holds: a BulkString with a length text and a payload, the null
\* bulk string, an Array with a count text and its elements, or a line that
\* starts with another byte
Shapes ==
    {BulkShape(l, p) : l \in LengthTexts, p \in Payloads}
    \cup {NullShape}
    \cup {ArrayShape(n, e) : n \in LengthTexts \cup {<<"-", "1">>}, e \in ElementLists}
    \cup {OtherShape(t, <<"1">>) : t \in {"x", ":", "-", "%"}}

RECURSIVE WireOf(_)
RECURSIVE WireOfAll(_)
WireOfAll(elems) ==
    IF elems = <<>> THEN <<>> ELSE WireOf(Head(elems)) \o WireOfAll(Tail(elems))

\* the bytes of a shape
WireOf(s) ==
    CASE s.k = "bulk" -> <<"$">> \o s.len \o CRLF \o s.payload \o CRLF
      [] s.k = "null" -> NullBulkStringBytes
      [] s.k = "array" -> <<"*">> \o s.count \o CRLF \o WireOfAll(s.elems)
      [] s.k = "other" -> <<s.tag>> \o s.text \o CRLF

WireInit ==
    /\ codec \in {[pc |-> "wire", shape |-> s, wire |-> WireOf(s)] : s \in Shapes}
    /\ server = "off"
    /\ scenario = "wire"
    /\ config = [dir |-> None, dbfilename |-> None, role |-> Master]
    /\ rdb = NoFile
    /\ replica = NoReplica
    /\ Constructed

\* message.lines() and RespDecoder::decode on the bytes read
WireDecode ==
    /\ codec.pc = "wire"
    /\ codec' = [pc |-> "decoded", shape |-> codec.shape, wire |-> codec.wire,
                 dec |-> RespDecoder_decode(lines(codec.wire))]
    /\ UNCHANGED serverVars

WireNext == WireDecode

SpecWire == WireInit /\ [][WireNext]_vars

(***************************************************************************)
(* The handshake of a follower (connections/replica.rs)                    *)
(***************************************************************************)
T_REPLCONF == <<"R", "E", "P", "L", "C", "O", "N", "F">>
T_listening_port == <<"l", "i", "s", "t", "e", "n", "i", "n", "g", "-", "p", "o", "r", "t">>
T_capa == <<"c", "a", "p", "a">>
T_psync2 == <<"p", "s", "y", "n", "c", "2">>
T_PSYNC == <<"P", "S", "Y", "N", "C">>

\* the port of the address of the follower
ServerPort == 6379

PingCommand_generate_request == RespEncoder_encode(Array(<<SimpleString(T_PING)>>))

ReplconfCommand_generate_request(arg) ==
    IF arg.k = "ListeningPort"
    THEN RespEncoder_encode(Array(<<BulkString(T_REPLCONF), BulkString(T_listening_port),
                                    BulkString(to_string(arg.port))>>))
    ELSE RespEncoder_encode(Array(<<BulkString(T_REPLCONF), BulkString(T_capa),
                                    BulkString(arg.value)>>))

\* the request of PSYNC with an unknown replication id and offset
PsyncCommand_generate_request ==
    RespEncoder_encode(Array(<<BulkString(T_PSYNC), BulkString(<<"?">>),
                               BulkString(<<"-", "1">>)>>))

\* the requests of send_handshake, in the order of its calls of write_request
HandshakeRequests ==
    << PingCommand_generate_request,
       ReplconfCommand_generate_request([k |-> "ListeningPort", port |-> ServerPort]),
       ReplconfCommand_generate_request([k |-> "Capa", value |-> T_psync2]),
       PsyncCommand_generate_request >>

\* what the leader writes to the connection: replies, an error frame, and the
\* first bytes of a reply
LeaderReplies ==
    { RespEncoder_encode(SimpleString(T_PONG)),
      RespEncoder_encode(SimpleString(T_OK)),
      <<"-", "E", "R", "R", CR, LF>>,
      <<"+", "O">> }

HandshakeInit ==
    /\ replica = [pc |-> "connect", i |-> 1, requests |-> <<>>, replies |-> <<>>,
                  inbox |-> <<>>, eof |-> FALSE]
    /\ server = "off"
    /\ scenario = "handshake"
    /\ config = [dir |-> None, dbfilename |-> None, role |-> Slave(LeaderAddr)]
    /\ rdb = NoFile
    /\ codec = CodecOff
    /\ Constructed

handshakeVars == <<server, config, rdb, store, mutex, poisoned, now, pc, inbuf, outbuf,
                   peerClosed, task, sent, obs, lastSet, scenario, pending, codec>>

\* ReplicaConnection::listen: TcpStream::connect to the address of the leader
ReplicaConnect ==
    /\ replica.pc = "connect"
    /\ replica' = [replica EXCEPT !.pc = "write"]
    /\ UNCHANGED handshakeVars

\* connect fails and expect panics
ReplicaConnectFails ==
    /\ replica.pc = "connect"
    /\ replica' = [replica EXCEPT !.pc = "panicked"]
    /\ UNCHANGED handshakeVars

\* write_request up to its read: the request of the command is written; an
\* error of write_all is dropped
WriteRequest ==
    /\ replica.pc = "write"
    /\ replica' = [replica EXCEPT !.requests = Append(@, HandshakeRequests[replica.i]),
                                  !.pc = "read"]
    /\ UNCHANGED handshakeVars

\* the leader writes to the connection while the follower waits at its read
LeaderReply ==
    /\ replica.pc = "read"
    /\ ~replica.eof
    /\ replica.inbox = <<>>
    /\ \E m \in LeaderReplies : replica' = [replica EXCEPT !.inbox = m]
    /\ UNCHANGED handshakeVars

\* the leader closes the connection, or its sending side
LeaderClose ==
    /\ replica.pc = "read"
    /\ ~replica.eof
    /\ replica.inbox = <<>>
    /\ replica' = [replica EXCEPT !.eof = TRUE]
    /\ UNCHANGED handshakeVars

\* RespReader::read and the return of write_request: the bytes available are
\* read; no byte at the end of the stream is Ok(None); else one value is
\* decoded and expect panics on its error. send_handshake then goes on to its
\* next request, or returns after the fourth
ReadReply ==
    /\ replica.pc = "read"
    /\ replica.inbox # <<>> \/ replica.eof
    /\ LET message == replica.inbox
           decoded == RespDecoder_decode(lines(message))
       IN  IF message # <<>> /\ ~decoded.ok
           THEN replica' = [replica EXCEPT !.pc = "panicked", !.inbox = <<>>]
           ELSE replica' = [replica EXCEPT
                              !.replies = Append(@, IF message = <<>> THEN None
                                                    ELSE Some(decoded.v)),
                              !.inbox = <<>>,
                              !.i = IF @ < Len(HandshakeRequests) THEN @ + 1 ELSE @,
                              !.pc = IF replica.i < Len(HandshakeRequests) THEN "write"
                                     ELSE "done"]
    /\ UNCHANGED handshakeVars

HandshakeNext ==
    \/ ReplicaConnect
    \/ ReplicaConnectFails
    \/ WriteRequest
    \/ LeaderReply
    \/ LeaderClose
    \/ ReadReply

SpecHandshake == HandshakeInit /\ [][HandshakeNext]_vars

(***************************************************************************)
(* The snapshot decoder alone on the bytes of a file                       *)
(***************************************************************************)
\* the first bytes of a size: the least and the greatest of each pair of top bits
SizeFirstBytes == {0, 1, 63, 64, 65, 127, 128, 129, 191, 192, 195, 255}

\* the bytes that follow the first byte of a size
SizeTails ==
    { <<>>, <<1>>, <<255>>, <<1, 2>>, <<0, 0, 1, 2>>, <<1, 2, 3, 4, 5>>,
      <<127, 255, 255, 255>> }

\* the bytes given to SizeDecoder::decode
RdbSizeInputs == {<<b>> \o t : b \in SizeFirstBytes, t \in SizeTails}

\* the bytes that follow the size of a length-prefixed string: none, the
\* letters a to d, and a byte that is not ASCII
StringPayloads ==
    { <<>>, <<97>>, <<97, 98>>, <<97, 98, 99>>, <<97, 98, 99, 100>>, <<97, 200>> }

\* strings with a special encoding: the 8-bit, 16-bit and 32-bit integers, whole
\* and cut, the LZF marker and an unknown marker
EncodedStrings ==
    {<<EncInt8, x>> : x \in {0, 5, 127, 128, 255}}
    \cup { <<EncInt8>>,
           <<EncInt16, 1, 2>>, <<EncInt16, 255, 255, 7>>, <<EncInt16, 1>>,
           <<EncInt32, 1, 0, 0, 0>>, <<EncInt32, 255, 255, 255, 127, 9>>,
           <<EncInt32, 1, 2>>,
           <<EncLzf, 1>>,
           <<197>> }

\* the bytes given to StringDecoder::decode
RdbStringInputs ==
    {<<l>> \o t : l \in 0..3, t \in StringPayloads}
    \cup {<<64, 2>> \o t : t \in StringPayloads}
    \cup EncodedStrings

\* the files given to RdbFileDecoder::decode
RdbFileInputs == {f.bytes : f \in RdbFiles \ {NoFile}}

\* a database section: the selector with the index, the sizes, the entries
RdbDatabaseBytes(section) ==
    <<TagDatabase, section.index, TagSizes, Len(section.entries), 0>>
    \o RdbEntries(section.entries)

RECURSIVE RdbDatabasesBytes(_)
RdbDatabasesBytes(sections) ==
    IF sections = <<>> THEN <<>>
    ELSE RdbDatabaseBytes(Head(sections)) \o RdbDatabasesBytes(Tail(sections))

\* files with no, one and two database sections, with the indexes 0 to 2 in
\* both orders and twice the same; the second section has the key b of the
\* first one with another value, or a key of its own
DatabaseFiles ==
    LET first == <<PlainEntry(K_a, V_1), PlainEntry(K_b, <<"9">>)>>
        seconds == { <<PlainEntry(K_b, V_2)>>, <<PlainEntry(<<"c">>, V_2)>>, <<>> }
        sections == { <<>> }
                    \cup {<<[index |-> i, entries |-> first]>> : i \in 0..2}
                    \cup {<<[index |-> i, entries |-> first], [index |-> j, entries |-> e]>> :
                            i \in 0..2, j \in 0..2, e \in seconds}
    IN  {[sections |-> ss,
          bytes |-> SubSeq(RdbFileBytes(<<>>), 1, Len(RdbFileBytes(<<>>)) - 14) \o RdbDatabasesBytes(ss)
                    \o <<TagEndOfFile, 1, 2, 3, 4, 5, 6, 7, 8>>] : ss \in sections}

RdbInit ==
    /\ codec \in {[pc |-> "bytes", unit |-> "size", bytes |-> b] : b \in RdbSizeInputs}
               \cup {[pc |-> "bytes", unit |-> "string", bytes |-> b] : b \in RdbStringInputs}
               \cup {[pc |-> "bytes", unit |-> "file", bytes |-> b] : b \in RdbFileInputs}
               \cup {[pc |-> "file", unit |-> "sync", bytes |-> f.bytes,
                      sections |-> f.sections] : f \in DatabaseFiles}
    /\ server = "off"
    /\ scenario = "rdb"
    /\ config = [dir |-> None, dbfilename |-> None, role |-> Master]
    /\ rdb = NoFile
    /\ replica = NoReplica
    /\ Constructed

\* SizeDecoder::decode on a reader of the bytes
RdbDecodeSize ==
    /\ codec.pc = "bytes" /\ codec.unit = "size"
    /\ codec' = [pc |-> "decoded", unit |-> codec.unit, bytes |-> codec.bytes,
                 out |-> SizeDecoder_decode(RdbFileReader_new(codec.bytes))]
    /\ UNCHANGED serverVars

\* StringDecoder::decode on a reader of the bytes
RdbDecodeString ==
    /\ codec.pc = "bytes" /\ codec.unit = "string"
    /\ codec' = [pc |-> "decoded", unit |-> codec.unit, bytes |-> codec.bytes,
                 out |-> StringDecoder_decode(RdbFileReader_new(codec.bytes))]
    /\ UNCHANGED serverVars

\* RdbFileDecoder::decode on the bytes of the file
RdbDecodeFile ==
    /\ codec.pc = "bytes" /\ codec.unit = "file"
    /\ codec' = [pc |-> "decoded", unit |-> codec.unit, bytes |-> codec.bytes,
                 out |-> RdbFileDecoder_decode(codec.bytes)]
    /\ UNCHANGED serverVars

\* RdbSync::sync on a store that is empty and a file that exists
RdbSyncFile ==
    /\ codec.pc = "file" /\ codec.unit = "sync"
    /\ \E r \in RdbSync_sync(EmptyStore, [found |-> TRUE, bytes |-> codec.bytes]) :
         codec' = [pc |-> "synced", unit |-> codec.unit, bytes |-> codec.bytes,
                   sections |-> codec.sections, out |-> r]
    /\ UNCHANGED serverVars

RdbNext == RdbDecodeSize \/ RdbDecodeString \/ RdbDecodeFile \/ RdbSyncFile

SpecRdb == RdbInit /\ [][RdbNext]_vars

(***************************************************************************)
(* Properties                                                              *)
(***************************************************************************)
\* the last completed write of the key a GET looked up was a SET
GetAfterSet(c) ==
    /\ obs[c].cmd = "GET"
    /\ obs[c].last # None
    /\ obs[c].last[1].src = "set"

\* the last completed write of the key was a SET with the one option PX t, t > 0
GetAfterSetPx(c) ==
    /\ GetAfterSet(c)
    /\ Len(obs[c].last[1].opts) = 2
    /\ to_uppercase(obs[c].last[1].opts[1]) = T_PX
    /\ AllDigits(obs[c].last[1].opts[2])
    /\ DigitsValue(obs[c].last[1].opts[2]) > 0

\* the milliseconds between the clock read by that SET and the clock read by the GET
Elapsed(c) == obs[c].now - obs[c].last[1].at

\* C1: a GET of key k that follows a SET k v without options, with no other SET
\* of k in between, replies BulkString(v)
SetThenGet ==
    \A c \in Conns :
        GetAfterSet(c) /\ obs[c].last[1].opts = <<>>
        => obs[c].reply = RespEncoder_encode(BulkString(obs[c].last[1].value))

\* a GET has replied the value of a SET without options made on the other connection
SetThenGetSeen ==
    \E c \in Conns :
        /\ GetAfterSet(c)
        /\ obs[c].last[1].opts = <<>>
        /\ pc[c] = "write"
        /\ obs[c].reply = RespEncoder_encode(BulkString(V_2))

\* C2: after SET k v PX t (t > 0) and no later SET of k, a GET k less than t ms
\* after the SET replies BulkString(v) and a GET k more than t ms after it
\* replies NullBulkString
PxExpiry ==
    \A c \in Conns :
        GetAfterSetPx(c)
        => LET t == DigitsValue(obs[c].last[1].opts[2])
           IN  /\ Elapsed(c) < t
                  => obs[c].reply = RespEncoder_encode(BulkString(obs[c].last[1].value))
               /\ Elapsed(c) > t
                  => obs[c].reply = RespEncoder_encode(NullBulkString)

\* a GET made more than t ms after a SET with PX t has replied
PxExpirySeen ==
    \E c \in Conns :
        /\ GetAfterSetPx(c)
        /\ Elapsed(c) > DigitsValue(obs[c].last[1].opts[2])
        /\ pc[c] = "write"

\* C3: a GET of an entry whose expiration E satisfies now >= E, and so also
\* now = E, replies NullBulkString
ExpiredAtNow ==
    \A c \in Conns :
        (/\ obs[c].cmd = "GET"
         /\ obs[c].entry # None
         /\ obs[c].entry[1].exp # None
         /\ obs[c].now >= obs[c].entry[1].exp[1])
        => obs[c].reply = RespEncoder_encode(NullBulkString)

\* C4: the elements of the reply of KEYS * are exactly the keys whose
\* expiration has not passed
KeysAreLive ==
    \A c \in Conns :
        obs[c].cmd = "KEYS"
        => {obs[c].keys[i] : i \in DOMAIN obs[c].keys} = obs[c].live

\* C5: the entry a GET observes is whole, it is the entry built by one SET or
\* loaded from the snapshot, and when no insertion is in progress every entry
\* of the store is the entry of its last writer
NoTornEntry ==
    /\ \A c \in Conns :
         obs[c].cmd = "GET" /\ obs[c].entry # None
         => obs[c].last # None /\ obs[c].entry[1] = obs[c].last[1].entry
    /\ (\A c \in Conns : pc[c] # "set")
       => \A k \in DOMAIN store : k \in DOMAIN lastSet /\ store[k] = lastSet[k].entry

\* a task is in the middle of an insertion while another task waits for the
\* lock with a SET or a GET of the same key
ConcurrentAccess ==
    \E c, d \in Conns :
        /\ c # d
        /\ pc[c] = "set"
        /\ pc[d] = "lock"
        /\ task[d].out.op \in {"SET", "GET"}
        /\ task[d].out.key = task[c].out.key

\* C6: a connection whose task is back at its read with nothing left to read
\* has written one reply for each request sent
PipelinedReplies ==
    \A c \in Conns :
        pc[c] = "read" /\ inbuf[c] = <<>> => Len(outbuf[c]) = sent[c]

CommandLevelErrors ==
    {"InvalidCommand", "InvalidFormat", "InvalidCommandOptionName",
     "InvalidCommandOptionValue", "InvalidInfoArg", "unimplemented"}

\* C7: a command-level error does not end the task of the connection
CommandErrorsKeepConnection ==
    \A c \in Conns :
        pc[c] = "panicked" /\ task[c].args # <<>>
        => task[c].out.err \notin CommandLevelErrors

\* C8: the turn that handles a failing SET changes nothing in the store and
\* takes the task to no store access
FailedSetKeepsStore ==
    [][\A c \in Conns :
         (pc[c] = "read" /\ pc'[c] # "read" /\ task'[c].args \in BadSetRequests)
         => (store' = store /\ lastSet' = lastSet /\ pc'[c] \notin {"lock", "set", "write"})]_vars

\* a SET with a value that is not an integer for PX has failed on a store that holds a key
FailedSetSeen ==
    \E c \in Conns :
        /\ pc[c] = "panicked"
        /\ task[c].args = <<T_SET, K_b, V_2, T_PX, <<"x">>>>
        /\ K_b \in DOMAIN store
        /\ store[K_b].value = <<"9">>

\* C9: the step in which the task of a connection fails leaves the accept loop
\* running, the store as it was and its lock free and not poisoned, and the
\* other connections as they were
OneConnectionFailsAlone ==
    [][\A c \in Conns :
         (pc[c] # "panicked" /\ pc'[c] = "panicked")
         => /\ server' = "listening"
            /\ store' = store
            /\ ~poisoned'
            /\ mutex' = mutex
            /\ mutex' # c
            /\ \A d \in Conns \ {c} :
                 /\ pc'[d] = pc[d]
                 /\ inbuf'[d] = inbuf[d]
                 /\ outbuf'[d] = outbuf[d]
                 /\ task'[d] = task[d]]_vars

\* after the task of a connection failed on a frame that does not decode, another
\* connection was accepted, sent a GET and got the store's answer
ServedAfterFailure ==
    \E c, d \in Conns :
        /\ pc[c] = "panicked"
        /\ task[c].out.err = "InvalidRespDataType"
        /\ pc[d] = "write"
        /\ task[d].afterPanic
        /\ obs[d].cmd = "GET"

\* C10: decoding the encoding of a frame gives the frame
RoundTrip ==
    codec.pc = "decoded" => codec.dec.ok /\ codec.dec.v = codec.frame

\* the length text of a BulkString is the decimal text of the size of its payload
WellFormedBulk(s) == s.k = "bulk" /\ s.len = to_string(Len(s.payload))

\* C11: decoding a BulkString whose declared length L is the size of its payload
\* returns the BulkString of exactly these L bytes, whatever they are
BulkPayloadHasDeclaredLength ==
    codec.pc = "decoded" /\ WellFormedBulk(codec.shape)
    => /\ codec.dec.ok
       /\ codec.dec.v = BulkString(codec.shape.payload)
       /\ Len(codec.dec.v.s) = DigitsValue(codec.shape.len)

\* the input starts with an unknown tag byte, or its count or length is not a
\* decimal number, or it is negative and not -1
Malformed(s) ==
    \/ s.k = "other"
    \/ s.k = "bulk" /\ ~AllDigits(s.len)
    \/ s.k = "array" /\ ~AllDigits(s.count) /\ s.count # <<"-", "1">>

\* C12: the decoder returns an error, and no value, for an input that starts
\* with an unknown tag byte or whose count or length is not a decimal number
\* or is negative and not -1
MalformedIsRejected ==
    codec.pc = "decoded" /\ Malformed(codec.shape) => ~codec.dec.ok

\* the value a well-formed element stands for
FrameOf(s) == IF s.k = "null" THEN NullBulkString ELSE BulkString(s.payload)

\* C13: a BulkString header with the length -1 decodes to NullBulkString and no
\* line after it is taken as its payload: alone it is NullBulkString, and in an
\* Array the element after it is decoded as an element of its own
NullBulkConsumesNoPayload ==
    /\ codec.pc = "decoded" /\ codec.shape.k = "null"
       => codec.dec.ok /\ codec.dec.v = NullBulkString
    /\ (/\ codec.pc = "decoded"
        /\ codec.shape.k = "array"
        /\ codec.shape.count = to_string(Len(codec.shape.elems))
        /\ \E i \in DOMAIN codec.shape.elems : codec.shape.elems[i].k = "null")
       => /\ codec.dec.ok
          /\ codec.dec.v = Array([i \in DOMAIN codec.shape.elems |->
                                    FrameOf(codec.shape.elems[i])])

IsProperPrefix(p, m) == Len(p) < Len(m) /\ SubSeq(m, 1, Len(p)) = p

\* C14: no read hands the decoder a part of a request whose other bytes have
\* not arrived yet: the bytes a task decodes are never a proper prefix of the
\* request the client is sending
PartialFrameWaits ==
    \A c \in Conns :
        task[c].message # <<>>
        => \A r \in SplitRequests : ~IsProperPrefix(task[c].message, Request(r))

\* C15: when the snapshot file ends before its end-of-file section, wherever
\* it ends, startup ends with an error, no connection is served and the store
\* holds no key
SnapshotErrorFailsStartup ==
    rdb \in TruncatedFiles /\ server \notin {"new", "bound"}
    => /\ server = "failed"
       /\ store = EmptyStore
       /\ \A c \in Conns : pc[c] = "idle"

\* startup has failed on a file that ends after its first entry
SnapshotErrorSeen ==
    /\ rdb \in TruncatedFiles
    /\ Len(rdb.bytes) = Len(RdbFileBytes(<<PlainEntry(K_a, V_1)>>)) - 9
    /\ server = "failed"
    /\ store = EmptyStore

\* C16: with a snapshot path configured and no file at the path, the step that
\* loads the snapshot leaves the store empty and starts the accept loop
MissingSnapshotIsNoError ==
    [][(server = "bound" /\ get_rdb_path(config) # None /\ ~rdb.found)
       => (server' = "listening" /\ store' = EmptyStore)]_vars

\* a request was served by a server whose snapshot file is missing
MissingSnapshotServed ==
    /\ get_rdb_path(config) # None
    /\ ~rdb.found
    /\ server = "listening"
    /\ \E c \in Conns : pc[c] = "write"

\* the keys of the entries of the snapshot file
SnapshotKeys(file) ==
    IF file.found THEN {file.entries[i].key : i \in DOMAIN file.entries} ELSE {}

\* C17: a connection is accepted, and so a command runs, only when the accept
\* loop has started, and then the store holds every key of the snapshot
NoServiceBeforeLoad ==
    \A c \in Conns :
        pc[c] # "idle"
        => /\ server = "listening"
           /\ get_rdb_path(config) # None => SnapshotKeys(rdb) \subseteq DOMAIN store

\* a GET has found the entry loaded from the snapshot
SnapshotValueServed ==
    \E c \in Conns :
        /\ obs[c].cmd = "GET"
        /\ obs[c].last # None
        /\ obs[c].last[1].src = "rdb"
        /\ obs[c].reply = RespEncoder_encode(BulkString(<<"9">>))
        /\ pc[c] = "write"

\* the expiration, in milliseconds, of the entry of a file of ExpiringFiles
ExpectedExp(file) ==
    IF file.entries[2].prefix = "ms" THEN file.entries[2].exp
    ELSE file.entries[2].exp * 1000

\* C18: a snapshot whose entry of key b has an expiration prefix (0xFC with
\* milliseconds or 0xFD with seconds) loads: the load does not end startup and
\* the store maps b to the value that follows it, with that expiration
ExpiringEntryLoaded ==
    rdb \in ExpiringFiles /\ server \notin {"new", "bound"}
    => /\ server # "panicked"
       /\ server = "listening"
          => /\ K_b \in DOMAIN store
             /\ store[K_b] = StoreValue(<<"9">>, Some(ExpectedExp(rdb)))

\* C20: in the follower role the spawned task does not listen on the address
\* of the leader: it connects to it
NoListenOnLeaderAddress ==
    config.role.kind = "slave"
    => ~(replica.pc = "listening" /\ replica.addr = config.role.addr)

\* C19: the requests of the handshake are the four requests PING, REPLCONF
\* listening-port <port>, REPLCONF capa psync2, PSYNC ? -1 in this order, all
\* four when the handshake has returned, and each request after the first is
\* written only after the read that follows the request before it has returned
\* a reply
HandshakeInOrder ==
    /\ Len(replica.requests) <= 4
    /\ \A j \in 1..Len(replica.requests) : replica.requests[j] = HandshakeRequests[j]
    /\ replica.pc = "done" => Len(replica.requests) = 4
    /\ \A j \in 2..Len(replica.requests) :
         Len(replica.replies) >= j - 1 /\ replica.replies[j - 1] # None

\* C21: a reply of the leader that is unexpected or cannot be decoded does not
\* end the handshake with a panic: once a request was written the handshake
\* goes on or returns
HandshakeNeverPanics ==
    Len(replica.requests) > 0 => replica.pc # "panicked"

\* a GET that follows a SET without options which replaced an entry with an
\* expiration
GetAfterReplace(c) ==
    /\ obs[c].cmd = "GET"
    /\ obs[c].last # None
    /\ obs[c].last[1].src = "set"
    /\ obs[c].last[1].opts = <<>>
    /\ obs[c].last[1].over # None

\* C22: a SET replaces the whole entry: after SET k v1 PX t and then SET k v2
\* without PX, the entry of k has no expiration and GET k replies
\* BulkString(v2) at every later time
SetReplacesEntry ==
    \A c \in Conns :
        GetAfterReplace(c)
        => /\ obs[c].entry = Some(StoreValue(obs[c].last[1].value, None))
           /\ obs[c].reply = RespEncoder_encode(BulkString(obs[c].last[1].value))

\* a GET has replied the value of the second SET after the expiration given by
\* the first SET has passed
SetReplacesEntrySeen ==
    \E c \in Conns :
        /\ GetAfterReplace(c)
        /\ obs[c].last[1].over[1] < obs[c].now
        /\ obs[c].reply = RespEncoder_encode(BulkString(V_2))
        /\ pc[c] = "write"

\* a SET whose first option is PX with a value that is not a non-negative integer
SetWithBadPx(args) ==
    /\ Len(args) = 5
    /\ to_uppercase(args[1]) = T_SET
    /\ to_uppercase(args[4]) = T_PX
    /\ ~(parse_i64(args[5]).ok /\ parse_i64(args[5]).v >= 0)

\* C23: SET k v PX x with x negative or not an integer fails with the error
\* InvalidCommandOptionValue and stores nothing
NegativePxRejected ==
    /\ \A c \in Conns :
         SetWithBadPx(task[c].args) => task[c].out = Err("InvalidCommandOptionValue")
    /\ \A k \in DOMAIN lastSet :
         lastSet[k].src = "set" => ~SetWithBadPx(<<T_SET, k, lastSet[k].value>> \o lastSet[k].opts)

\* a CONFIG GET request with a parameter
IsConfigGet(args) ==
    /\ Len(args) >= 3
    /\ to_uppercase(args[1]) = T_CONFIG
    /\ to_uppercase(args[2]) = T_GET

\* the reply the claim gives for the parameter p under the settings
ConfigGetExpected(p, server_config) ==
    CASE p = T_dir /\ server_config.dir # None ->
           RespEncoder_encode(Array(<<BulkString(p), BulkString(server_config.dir[1])>>))
      [] p = T_dbfilename /\ server_config.dbfilename # None ->
           RespEncoder_encode(Array(<<BulkString(p), BulkString(server_config.dbfilename[1])>>))
      [] OTHER -> RespEncoder_encode(NullBulkString)

\* C24: CONFIG GET p replies the Array of p and its value when p is dir or
\* dbfilename and the setting is configured, NullBulkString for every other
\* name and for a setting that is not configured; the settings never change
ConfigGetReplies ==
    [][/\ config' = config
       /\ \A c \in Conns :
            (pc[c] = "read" /\ pc'[c] # "read" /\ IsConfigGet(task'[c].args))
            => (pc'[c] = "write"
                /\ task'[c].out = Reply(ConfigGetExpected(task'[c].args[3], config)))]_vars

\* with dir configured and dbfilename not, CONFIG GET dir was answered with the
\* Array and CONFIG GET dbfilename is answered with NullBulkString
ConfigGetSeen ==
    /\ config.dir # None /\ config.dbfilename = None
    /\ outbuf[1] = <<RespEncoder_encode(Array(<<BulkString(T_dir),
                                                 BulkString(config.dir[1])>>))>>
    /\ pc[1] = "write"
    /\ IsConfigGet(task[1].args) /\ task[1].args[3] = T_dbfilename
    /\ task[1].out = Reply(RespEncoder_encode(NullBulkString))

\* C25: a request that is an empty Array, or an Array without a BulkString
\* element, yields EmptyCommand: no command runs, the store is unchanged, no
\* reply is written and the task ends, which closes the connection for good
EmptyArrayRejected ==
    [][\A c \in Conns :
         /\ (pc[c] = "read" /\ pc'[c] # "read" /\ inbuf[c] \in EmptyRequests)
            => /\ task'[c].out = Err("EmptyCommand")
               /\ task'[c].args = <<>>
               /\ pc'[c] = "panicked"
               /\ store' = store /\ lastSet' = lastSet /\ mutex' = mutex
               /\ outbuf' = outbuf
         /\ (pc[c] = "panicked" /\ task[c].out = Err("EmptyCommand"))
            => (pc'[c] = "panicked" /\ outbuf'[c] = outbuf[c])]_vars

\* after a SET, an Array without a BulkString element has ended the task with
\* EmptyCommand and the entry is still in the store
EmptyArraySeen ==
    /\ pc[1] = "panicked"
    /\ task[1].message = RespEncoder_encode(Array(<<SimpleString(T_PING)>>))
    /\ task[1].out = Err("EmptyCommand")
    /\ K_b \in DOMAIN store
    /\ Len(outbuf[1]) = 1

\* the names of the commands, as the dispatch tests them
CommandNames == {T_PING, T_ECHO, T_SET, T_GET, T_CONFIG_GET, T_KEYS, T_INFO}

\* the text s begins with the text p
HasPrefix(s, p) == Len(s) >= Len(p) /\ \A i \in 1..Len(p) : s[i] = p[i]

\* the upper-cased name of a request: its first element, or its first two
\* elements joined by a space
FoldedName(args) ==
    to_uppercase(IF Len(args) = 1 THEN args[1] ELSE args[1] \o <<" ">> \o args[2])

\* the turn of connection c ran the command whose name is p, as far as its
\* result shows
RanCommand(c, p) ==
    LET args == task[c].args
        out == task[c].out
    IN  /\ out # Err("InvalidCommand")
        /\ p = T_PING => out = Reply(RespEncoder_encode(SimpleString(T_PONG)))
        /\ (p = T_ECHO /\ Len(args) >= 2) => out = Reply(RespEncoder_encode(BulkString(args[2])))
        /\ (p = T_CONFIG_GET /\ Len(args) >= 3)
           => out = Reply(ConfigGetExpected(args[3], config))
        /\ (p = T_INFO /\ Len(args) >= 2 /\ args[2] = T_replication)
           => out = Reply(RespEncoder_encode(BulkString(ServerInfoFormatter_fmt(ServerInfo))))
        /\ out.kind = "lock"
           => out.op = (CASE p = T_SET -> "SET" [] p = T_GET -> "GET" [] p = T_KEYS -> "KEYS"
                          [] OTHER -> "none")

\* C26: the command is selected by case-folded prefix of the name: a request
\* runs the command whose name its upper-cased name starts with, and a name
\* that starts with none of them yields InvalidCommand
DispatchByPrefix ==
    \A c \in Conns :
        task[c].args # <<>>
        => /\ \A p \in CommandNames :
                HasPrefix(FoldedName(task[c].args), p) => RanCommand(c, p)
           /\ (\A p \in CommandNames : ~HasPrefix(FoldedName(task[c].args), p))
              => task[c].out = Err("InvalidCommand")

\* the request Getx b has run GET up to its call of lock
DispatchSeen ==
    /\ pc[1] = "lock"
    /\ task[1].args = <<<<"G", "e", "t", "x">>, K_b>>
    /\ task[1].out.op = "GET"

\* the options of a SET request
SetOptions(args) == SubSeq(args, 4, Len(args))

\* the pairs before position i of the options are PX with an integer value
ValidPairsBefore(opts, i) ==
    \A j \in 1..(i - 1) :
        IF j % 2 = 1 THEN to_uppercase(opts[j]) = T_PX ELSE parse_i64(opts[j]).ok

\* C27: the options of SET are read left to right as (name, value) pairs: a
\* name other than PX yields InvalidCommandOptionName even after valid pairs,
\* and with several PX the stored expiration is the one of the last PX value
SetOptionsInOrder ==
    /\ \A c \in Conns :
         LET args == task[c].args
             opts == SetOptions(args)
         IN  (Len(args) > 3 /\ HasPrefix(FoldedName(args), T_SET))
             => /\ (\E i \in 1..Len(opts) :
                       /\ i % 2 = 1
                       /\ to_uppercase(opts[i]) # T_PX
                       /\ ValidPairsBefore(opts, i))
                   => task[c].out = Err("InvalidCommandOptionName")
                /\ (Len(opts) % 2 = 0 /\ ValidPairsBefore(opts, Len(opts) + 1)
                    /\ task[c].out.kind = "lock")
                   => task[c].out.builder.exp
                        = Some(task[c].at + parse_i64(opts[Len(opts)]).v)
    /\ \A k \in DOMAIN lastSet :
         (lastSet[k].src = "set" /\ lastSet[k].opts # <<>>)
         => lastSet[k].entry.exp
              = Some(lastSet[k].at + parse_i64(lastSet[k].opts[Len(lastSet[k].opts)]).v)

\* a SET with PX 2 and then PX 1 has stored the expiration of PX 1
SetOptionsSeen ==
    /\ K_b \in DOMAIN lastSet
    /\ lastSet[K_b].src = "set"
    /\ lastSet[K_b].opts = <<T_PX, <<"2">>, T_PX, <<"1">>>>
    /\ store[K_b] = StoreValue(V_1, Some(lastSet[K_b].at + 1))

\* a request of PING, ECHO, GET, CONFIG GET, KEYS or INFO
ReadOnlyRequest(args) ==
    /\ args # <<>>
    /\ \E p \in CommandNames \ {T_SET} : HasPrefix(FoldedName(args), p)

\* the observation o is of a GET that found an entry whose expiration has passed
GetFoundExpired(o) ==
    /\ o.cmd = "GET"
    /\ o.entry # None
    /\ o.entry[1].exp # None
    /\ o.entry[1].exp[1] < o.now

\* C28: PING, ECHO, GET, KEYS, CONFIG GET and INFO leave the store unchanged;
\* a GET that finds an expired entry replies NullBulkString and leaves the
\* entry in the map
ReadCommandsKeepStore ==
    [][\A c \in Conns :
         /\ (pc'[c] # pc[c]
             /\ (ReadOnlyRequest(task[c].args) \/ ReadOnlyRequest(task'[c].args)))
            => store' = store
         /\ (obs'[c] # obs[c] /\ GetFoundExpired(obs'[c]))
            => /\ obs'[c].reply = RespEncoder_encode(NullBulkString)
               /\ Store_get(store', obs'[c].key) = obs'[c].entry]_vars

\* a GET has found an expired entry, replies NullBulkString, and the entry is
\* in the map
ExpiredEntryKept ==
    \E c \in Conns :
        /\ pc[c] = "write"
        /\ GetFoundExpired(obs[c])
        /\ task[c].out = Reply(RespEncoder_encode(NullBulkString))
        /\ obs[c].key \in DOMAIN store

\* C29: a task never holds the store lock across a socket read or a socket
\* write: the lock is taken and released inside the computation of the reply
NoLockAcrossSocket ==
    \A c \in Conns : pc[c] \in {"read", "write"} => mutex # c

\* the reply OK of a SET is about to be written while the other task holds the
\* lock, which the SET has released
LockReleasedBeforeWrite ==
    \E c, d \in Conns :
        /\ c # d
        /\ pc[c] = "write"
        /\ task[c].out = Reply(RespEncoder_encode(SimpleString(T_OK)))
        /\ mutex = d

\* C30: when the peer has closed its side and every request was read and
\* answered, the task does not wait: its read returns the empty message and the
\* task ends; a task ends this way only at a read, with no reply left to write
PeerCloseEndsTask ==
    \A c \in Conns :
        /\ (peerClosed[c] /\ pc[c] = "read" /\ inbuf[c] = <<>>)
           => /\ ENABLED (Read(c) /\ pc'[c] = "closed" /\ outbuf'[c] = outbuf[c])
              /\ ~ENABLED (Read(c) /\ pc'[c] # "closed")
        /\ pc[c] = "closed"
           => (peerClosed[c] /\ inbuf[c] = <<>> /\ task[c] = NoTask)

\* a task has ended after its client closed, with the replies to both requests
\* of the client written
PeerCloseSeen ==
    \E c \in Conns :
        /\ pc[c] = "closed"
        /\ sent[c] = 2
        /\ Len(outbuf[c]) = 2

\* C31: the listener is bound only after the snapshot was decoded and the store
\* populated: the bind is never followed by the load of a snapshot, and a
\* startup that fails does so with the port not bound
BindAfterSnapshot ==
    [][/\ (server = "bound" /\ server' = "listening")
          => (get_rdb_path(config) = None \/ ~rdb.found)
       /\ (server' \in {"failed", "panicked"} /\ server' # server)
          => server = "new"]_vars

\* the size decoder has run on the bytes
SizeDecoded == codec.pc = "decoded" /\ codec.unit = "size"

\* the number of file bytes the calls on the reader have taken from the file
Consumed(out, bytes) == Len(bytes) - Len(out.rd.file)

\* C32: the size decoder maps the first byte b by its top two bits: 00 gives
\* Length(b & 0x3F) and reads no more bytes, 01 gives Length(((b & 0x3F) << 8)
\* | next byte) and reads one more byte, 10 gives the Length of the next 4
\* bytes read big-endian, 11 gives a string-type marker and not a length
SizeByTopBits ==
    SizeDecoded =>
        LET b == codec.bytes[1]
            n == Len(codec.bytes)
            out == codec.out
        IN  CASE b < 64 ->
                   /\ out.kind = "ok" /\ out.v = Length(b % 64)
                   /\ Consumed(out, codec.bytes) = 1
              [] b < 128 ->
                   IF n >= 2
                   THEN /\ out.kind = "ok"
                        /\ out.v = Length((b % 64) * 256 + codec.bytes[2])
                        /\ Consumed(out, codec.bytes) = 2
                   ELSE out.kind = "err"
              [] b < 192 ->
                   IF n >= 5
                   THEN /\ out.kind = "ok"
                        /\ out.v = Length(((codec.bytes[2] * 256 + codec.bytes[3]) * 256
                                           + codec.bytes[4]) * 256 + codec.bytes[5])
                        /\ Consumed(out, codec.bytes) = 5
                   ELSE out.kind = "err"
              [] OTHER ->
                   /\ out.kind = "ok" /\ out.v = StringType(b)
                   /\ Consumed(out, codec.bytes) = 1

\* the five-byte size 0x80 0x00 0x00 0x01 0x02 was decoded to 258
SizeDecodedSeen ==
    /\ SizeDecoded
    /\ codec.out.kind = "ok"
    /\ codec.bytes = <<128, 0, 0, 1, 2>>
    /\ codec.out.v = Length(258)
    /\ codec.out.rd.file = <<>>

\* the string decoder has run on the bytes
StringDecoded == codec.pc = "decoded" /\ codec.unit = "string"

\* the decimal text of the byte x read as an 8-bit signed integer
SignedByteText(x) == IF x < 128 THEN to_string(x) ELSE <<"-">> \o to_string(256 - x)

\* C33: a string with the encoding 0xC0 decodes to the decimal text of the next
\* byte read as an 8-bit signed integer, 0xC1 to the text of the next 2 bytes
\* as a little-endian 16-bit integer, 0xC2 to the text of the next 4 bytes as a
\* little-endian 32-bit integer
IntegerStrings ==
    StringDecoded =>
        LET b == codec.bytes
            out == codec.out
        IN  /\ (b[1] = EncInt8 /\ Len(b) >= 2)
               => (out.kind = "ok" /\ out.v = SignedByteText(b[2]))
            /\ (b[1] = EncInt16 /\ Len(b) >= 3)
               => (out.kind = "ok" /\ out.v = to_string(b[2] + 256 * b[3]))
            /\ (b[1] = EncInt32 /\ Len(b) >= 5)
               => (out.kind = "ok"
                   /\ out.v = to_string(b[2] + 256 * (b[3] + 256 * (b[4] + 256 * b[5]))))

\* a decoder has run on the bytes; the history of the calls on its reader
RdbDecoded == codec.pc = "decoded"
ReaderLog == codec.out.rd.log

RECURSIVE Delivered(_)
\* the bytes the calls of log have handed to the decoder, in order, less the
\* bytes it has put back; a byte put back that is not the last one handed out
\* is marked
Delivered(log) ==
    IF log = <<>> THEN <<>>
    ELSE LET e == log[Len(log)]
             d == Delivered(SubSeq(log, 1, Len(log) - 1))
         IN  IF e.op # "write_byte_to_buf" THEN d \o e.got
             ELSE IF d # <<>> /\ d[Len(d)] = e.got[1] THEN SubSeq(d, 1, Len(d) - 1)
             ELSE d \o <<"not the byte read">>

\* C34: the pushback of the reader holds at most one byte in every state of a
\* decode; the read that follows a pushback returns the byte put back first,
\* followed by the next bytes of the file; no byte of the file is lost,
\* duplicated or reordered
PushbackOneByte ==
    RdbDecoded =>
        /\ Len(codec.out.rd.buffer) <= 1
        /\ \A i \in DOMAIN ReaderLog :
             /\ Len(ReaderLog[i].buffer) <= 1
             /\ ReaderLog[i].op = "write_byte_to_buf" => ReaderLog[i].buffer = <<>>
             /\ (i > 1 /\ ReaderLog[i - 1].op = "write_byte_to_buf")
                => LET e == ReaderLog[i]
                       pos == Len(codec.bytes) - e.left
                   IN  /\ e.op \in {"read_u8", "read_exact"}
                       /\ e.got # <<>>
                       /\ e.got[1] = ReaderLog[i - 1].got[1]
                       /\ Tail(e.got) = SubSeq(codec.bytes, pos + 1, pos + Len(e.got) - 1)
        /\ Delivered(ReaderLog) \o codec.out.rd.buffer \o codec.out.rd.file = codec.bytes

\* a file was decoded to its end, and on the way a byte read to look for a
\* section was put back and returned by the next read
PushbackSeen ==
    /\ RdbDecoded
    /\ codec.unit = "file"
    /\ codec.out.kind = "ok"
    /\ \E i \in DOMAIN ReaderLog :
         /\ i > 1
         /\ ReaderLog[i - 1].op = "write_byte_to_buf"
         /\ ReaderLog[i].op = "read_u8"
         /\ ReaderLog[i].got = ReaderLog[i - 1].got

\* the bytes are a one-byte size L followed by the bytes of StringPayloads
LengthPrefixed == StringDecoded /\ codec.bytes[1] < 64

\* C35: decoding a length-prefixed string of declared length L takes exactly L
\* bytes after the size and returns exactly those bytes, for every L (for L = 0
\* it takes nothing); with fewer than L bytes left the decode fails
ExactLengthString ==
    LengthPrefixed =>
        LET L == codec.bytes[1]
            payload == Tail(codec.bytes)
        IN  IF Len(payload) < L THEN codec.out.kind = "err"
            ELSE IF \E i \in 1..L : payload[i] >= 128 THEN codec.out.kind = "err"
            ELSE /\ codec.out.kind = "ok"
                 /\ codec.out.v = [i \in 1..L |-> Chr(payload[i])]
                 /\ codec.out.rd.file = SubSeq(payload, L + 1, Len(payload))

FileDecoded == codec.pc = "decoded" /\ codec.unit = "file"

\* the calls of the log that take bytes from the reader
Reads(log) == {i \in 1..Len(log) : log[i].op \in {"read_u8", "read_exact"}}

\* C36: the decoder ends on every finite file with a result or with an error:
\* RdbFileDecoder::decode returns Ok or Err, after finitely many reads of which
\* each one that finds bytes in the file or in the buffer takes at least one
SnapshotDecodeEnds ==
    FileDecoded =>
        /\ codec.out.kind \in {"ok", "err"}
        /\ \A i \in Reads(ReaderLog) :
              (ReaderLog[i].left > 0 \/ ReaderLog[i].buffer # <<>>)
                  => Len(ReaderLog[i].got) >= 1

\* the task of c ends in this step: an error of its command or a panic
Fails(c) == pc[c] # "panicked" /\ pc'[c] = "panicked"

\* C37: no task fails or panics while it holds the store lock: a task that fails
\* does so in the step that reads its request, before its command calls lock
\* and without holding the lock; the lock is never poisoned and no command
\* ends with the store-access error
NoFailureUnderLock ==
    [][/\ ~poisoned'
       /\ \A c \in Conns :
             /\ Fails(c) => pc[c] = "read" /\ mutex # c /\ mutex' # c
             /\ task'[c].out # Err("Store")]_vars

\* a task has panicked on KEYS with a pattern other than *, and a request read
\* after that panic has taken the lock and has its reply
LockUsableAfterFailure ==
    \E c, d \in Conns :
        /\ pc[c] = "panicked" /\ task[c].args = <<T_KEYS, K_a>>
        /\ pc[d] = "write" /\ obs[d].cmd = "GET" /\ task[d].afterPanic
        /\ mutex = 0 /\ ~poisoned

\* the replies of the task of c in the order of its requests: the ones written
\* and the one it is about to write
Replies(c) == outbuf[c] \o (IF pc[c] = "write" THEN <<task[c].out.buf>> ELSE <<>>)

ReplyOK == RespEncoder_encode(SimpleString(T_OK))
ReplyNull == RespEncoder_encode(NullBulkString)

\* in the run of one client whose requests are SET and GET of the key b on a
\* store that starts empty: the reply i is the null of a GET that found the
\* entry expired (a SET came before it), and no SET lies between i and j
ExpiredSince(replies, i, j) ==
    /\ replies[i] = ReplyNull
    /\ \E h \in 1..(i - 1) : replies[h] = ReplyOK
    /\ \A m \in (i + 1)..j : replies[m] # ReplyOK

\* C38: with a clock that never goes backwards, once a GET of a key has replied
\* NullBulkString because its entry had expired, every later GET of that key
\* replies NullBulkString until the next SET of the key
ExpiryIsPermanent ==
    scenario = "replace" =>
        \A i, j \in 1..Len(Replies(1)) :
            (i < j /\ ExpiredSince(Replies(1), i, j)) => Replies(1)[j] = ReplyNull

\* a SET with PX, a GET that found its entry expired, and the reply of a second
\* GET of the key
SecondGetAfterExpiry ==
    /\ scenario = "replace"
    /\ outbuf[1] = <<ReplyOK, ReplyNull>>
    /\ pc[1] = "write" /\ obs[1].cmd = "GET" /\ obs[1].key = K_b
    /\ obs[1].entry # None

Synced == codec.pc = "synced" /\ codec.out.kind = "ok"

\* the entries of the key in the database sections of the file
SectionEntries(sections, key) ==
    UNION {{StoreValue(sections[i].entries[n].value, None) :
              n \in {m \in DOMAIN sections[i].entries : sections[i].entries[m].key = key}} :
           i \in DOMAIN sections}

SectionKeys(sections) ==
    UNION {{sections[i].entries[n].key : n \in DOMAIN sections[i].entries} :
           i \in DOMAIN sections}

\* C39: after a successful load the store holds every key of every database
\* section of the file, whatever the index of the section, and no other key; the
\* entry of a key is the whole entry it has in one of the sections
AllDatabasesLoaded ==
    Synced =>
        /\ DOMAIN codec.out.data = SectionKeys(codec.sections)
        /\ \A k \in DOMAIN codec.out.data :
              codec.out.data[k] \in SectionEntries(codec.sections, k)

\* the task spawned for the follower role has failed
LeaderTaskFailed == config.role.kind = "slave" /\ replica.pc = "panicked"

\* C40: in the follower role a failure of the spawned task does not stop the
\* server: the accept loop runs, it accepts the next client, and the task of a
\* connection runs the command of its request to its reply and writes it
LeaderTaskFailureIsolated ==
    LeaderTaskFailed =>
        /\ server = "listening"
        /\ \A c \in Conns :
              /\ pc[c] # "panicked"
              /\ (pc[c] = "idle" /\ \A d \in Conns : d < c => pc[d] # "idle")
                    => ENABLED Accept(c)
              /\ (pc[c] = "read" /\ inbuf[c] # <<>>)
                    => HandleMessage(inbuf[c], now, config, ServerInfo).out.kind = "reply"
              /\ pc[c] = "write" => ENABLED Write(c)

\* the spawned task has failed, a first client has its reply to PING and the
\* request of a second client, accepted since, is about to be answered
ServedAfterLeaderTaskFailed ==
    /\ LeaderTaskFailed
    /\ outbuf[1] = <<RespEncoder_encode(SimpleString(T_PONG))>>
    /\ pc[2] = "write"

====
